---- MODULE Spec2Model ----
(***************************************************************************)
(* Map generation of neurpg: the worker entry point, the generator         *)
(* factory, the spine / hub / cluster structured generator, the organic    *)
(* and geometric generators, and the furniture constraint solver.          *)
(***************************************************************************)
EXTENDS Integers, Sequences, FiniteSets, TLC

VARIABLES
    config,       \* the MapConfig handed to LayoutWorker.generateMap
    pc,           \* position inside generate()
    strategy,     \* layout strategy chosen by the selector
    allRects,     \* Rect per config room, in the (possibly re-sorted) order
    placed,       \* Rects placed by the layout strategy
    qi,           \* Cluster: index of the next queue entry
    stuck,        \* placeLeftovers: number of passes without progress
    grid,         \* cell grid, grid[y][x]
    roomGrid,     \* index into placed of the room painted on each cell
    rooms,        \* mapData.rooms
    tiles,        \* mapData.tiles
    fr,           \* furnishing: index of the room being furnished
    fi,           \* furnishing: index of the next item of sortedItems
    placedItems,  \* placedItems of every placeItems call, by room index
    rules,        \* ConstraintSolver.rules (static, shared by all calls)
    prevOut,      \* TileMap returned by the previous run on this config
    leaves,       \* BSP variant: the leaf containers of the lot
    iterations,   \* BSP variant: iterations of the split loop
    queue,        \* graph-growth variant: the BFS queue of placed rects
    ni,           \* graph-growth variant: index of the next neighbour id
    unplacedList  \* graph-growth variant: the rects the BFS did not place

vars == << config, pc, strategy, allRects, placed, qi, stuck, grid, roomGrid,
           rooms, tiles, fr, fi, placedItems, rules, prevOut,
           leaves, iterations, queue, ni, unplacedList >>

\* the state of the earlier variants of StructuredGenerator, which the
\* spine / hub / cluster pipeline does not have
variantVars == << leaves, iterations, queue, ni, unplacedList >>

-----------------------------------------------------------------------------
(* Bounds of the model *)

MaxRooms == 3
CanvasW == 16
CanvasH == 16
MaxSpineChildren == 3

(* Program constants *)

TERRAIN == 0
FLOOR == 1
WALL == 2
DOOR == 3
StuckLimit == 50

-----------------------------------------------------------------------------
(* Small helpers *)

Max(a, b) == IF a >= b THEN a ELSE b
Min(a, b) == IF a <= b THEN a ELSE b

Range(s) == { s[i] : i \in 1..Len(s) }

Includes(s, e) == \E i \in 1..Len(s) : s[i] = e

\* Array.prototype.find: index of the first element satisfying P, 0 if none
FindIndex(s, P(_)) ==
    IF \E i \in 1..Len(s) : P(s[i])
    THEN CHOOSE i \in 1..Len(s) : P(s[i]) /\ \A j \in 1..(i-1) : ~P(s[j])
    ELSE 0

\* Array.prototype.filter
Filter(s, P(_)) == SelectSeq(s, P)

\* const h = v; followed by the statements F that use h
Let(v, F(_)) == CHOOSE r \in { F(h) : h \in { v } } : TRUE

-----------------------------------------------------------------------------
(* Vocabulary of room types and names, with the keywords each contains.    *)
(* A regular expression /a|b|c/ is a test for a common keyword.            *)

Keywords == [
    corridor |-> {"corridor"},
    gallery  |-> {"gallery"},
    living   |-> {"living"},
    bedroom  |-> {"bed"},
    bath     |-> {"bath"},
    Corridor |-> {"corridor"},
    Gallery  |-> {},
    Lobby    |-> {"lobby"},
    Bedroom  |-> {"bed"},
    Bath     |-> {"bath"} ]

Test(words, s) == Keywords[s] \cap words # {}

Kinds == {
    [type |-> "corridor", name |-> "Corridor"],
    [type |-> "gallery",  name |-> "Gallery"],
    [type |-> "living",   name |-> "Lobby"],
    [type |-> "bedroom",  name |-> "Bedroom"],
    [type |-> "bath",     name |-> "Bath"] }

IdOf(i) == << "r1", "r2", "r3", "r4", "r5", "r6" >>[i]

-----------------------------------------------------------------------------
(* class Rect *)

Rect(x, y, w, h, room) == [x |-> x, y |-> y, w |-> w, h |-> h, room |-> room]

right(r) == r.x + r.w
bottom(r) == r.y + r.h
centerX(r) == r.x + (r.w \div 2)
centerY(r) == r.y + (r.h \div 2)

intersects(a, b, padding) ==
    /\ a.x < right(b) + padding
    /\ right(a) > b.x - padding
    /\ a.y < bottom(b) + padding
    /\ bottom(a) > b.y - padding

\* mutant: the rectangle is tested against the anchor only
checkCollisionAnchorOnly(rect, others) ==
    \E i \in 1..Min(1, Len(others)) :
        /\ rect.room.id # others[i].room.id
        /\ intersects(rect, others[i], 0)

checkCollision(rect, others) ==
    \E i \in 1..Len(others) :
        /\ rect.room.id # others[i].room.id
        /\ intersects(rect, others[i], 0)

getRoomDimensions(room) ==
    IF room.width # 0 /\ room.height # 0
    THEN [w |-> room.width, h |-> room.height]
    ELSE IF Test({"corridor", "hall", "passage"}, room.type) THEN [w |-> 10, h |-> 2]
    ELSE IF Test({"living", "ballroom", "common"}, room.type) THEN [w |-> 10, h |-> 8]
    ELSE IF Test({"master"}, room.type) THEN [w |-> 8, h |-> 6]
    ELSE IF Test({"kitchen", "dining"}, room.type) THEN [w |-> 6, h |-> 6]
    ELSE IF Test({"bath", "wc", "toilet"}, room.type) THEN [w |-> 3, h |-> 3]
    ELSE [w |-> 5, h |-> 5]

Area(r) == r.w * r.h

\* Array.prototype.sort with (a, b) => area(b) - area(a): stable, descending
RECURSIVE InsertByArea(_, _)
InsertByArea(sorted, e) ==
    IF sorted = << >> THEN << e >>
    ELSE IF Area(Head(sorted)) >= Area(e)
         THEN << Head(sorted) >> \o InsertByArea(Tail(sorted), e)
         ELSE << e >> \o sorted

RECURSIVE SortByArea(_)
SortByArea(s) ==
    IF s = << >> THEN << >>
    ELSE InsertByArea(SortByArea(SubSeq(s, 1, Len(s) - 1)), s[Len(s)])

placedIds(p) == { p[i].room.id : i \in 1..Len(p) }

-----------------------------------------------------------------------------
(* Strategy selector *)

isSpineRoom(r) ==
    \/ Test({"corridor", "hall", "passage", "gallery"}, r.room.type)
    \/ Test({"corridor", "hall", "passage"}, r.room.name)

isHubRoom(r) ==
    /\ \/ Test({"living", "common", "lobby", "foyer", "main"}, r.room.type)
       \/ Test({"living", "common", "lobby"}, r.room.name)
    /\ Len(r.room.connections) >= 2

spineRoom(rects) == FindIndex(rects, isSpineRoom)
hubRoom(rects) == FindIndex(rects, isHubRoom)

\* mutant: the hub test is made before the spine test
selectStrategyHubFirst(rects) ==
    IF hubRoom(rects) # 0 THEN "hub"
    ELSE IF spineRoom(rects) # 0 THEN "spine"
    ELSE "cluster"

selectStrategy(rects) ==
    IF spineRoom(rects) # 0 THEN "spine"
    ELSE IF hubRoom(rects) # 0 THEN "hub"
    ELSE "cluster"

-----------------------------------------------------------------------------
(* Snap search *)

\* the same candidates drawn one cell into the parent (a seam overlap)
snapCandidatesSeam(parent, child) == <<
    [x |-> centerX(parent) - (child.w \div 2), y |-> parent.y - child.h + 1],
    [x |-> centerX(parent) - (child.w \div 2), y |-> bottom(parent) - 1],
    [x |-> parent.x - child.w + 1, y |-> centerY(parent) - (child.h \div 2)],
    [x |-> right(parent) - 1, y |-> centerY(parent) - (child.h \div 2)],
    [x |-> parent.x, y |-> parent.y - child.h + 1],
    [x |-> right(parent) - child.w, y |-> parent.y - child.h + 1],
    [x |-> parent.x, y |-> bottom(parent) - 1],
    [x |-> right(parent) - child.w, y |-> bottom(parent) - 1] >>

snapCandidates(parent, child) == <<
    [x |-> centerX(parent) - (child.w \div 2), y |-> parent.y - child.h],
    [x |-> centerX(parent) - (child.w \div 2), y |-> bottom(parent)],
    [x |-> parent.x - child.w, y |-> centerY(parent) - (child.h \div 2)],
    [x |-> right(parent), y |-> centerY(parent) - (child.h \div 2)],
    [x |-> parent.x, y |-> parent.y - child.h],
    [x |-> right(parent) - child.w, y |-> parent.y - child.h],
    [x |-> parent.x, y |-> bottom(parent)],
    [x |-> right(parent) - child.w, y |-> bottom(parent)] >>

MoveTo(child, pos) == [child EXCEPT !.x = pos.x, !.y = pos.y]

\* index of the first candidate that does not collide, 0 for null
findTightSnapPosition(parent, child, obstacles) ==
    LET c == snapCandidates(parent, child)
        free(pos) == ~checkCollision(MoveTo(child, pos), obstacles)
    IN  FindIndex(c, free)

snapped(parent, child, obstacles) ==
    MoveTo(child, snapCandidates(parent, child)[findTightSnapPosition(parent, child, obstacles)])

-----------------------------------------------------------------------------
(* Inputs: the MapConfigs the worker is called with *)

Topologies == {"none", "star", "chain"}

Variants == {"plain", "dims", "baddims", "bed", "tv", "mixed", "small"}

connectionsOf(i, n, topo) ==
    IF topo = "star"
    THEN IF i = 1 THEN [k \in 1..(n-1) |-> IdOf(k+1)] ELSE << IdOf(1) >>
    ELSE IF topo = "chain"
    THEN (IF i > 1 THEN << IdOf(i-1) >> ELSE << >>) \o
         (IF i < n THEN << IdOf(i+1) >> ELSE << >>)
    ELSE << >>

\* a width or height of 0 stands for a dimension that is absent (JavaScript
\* treats both as falsy)
RoomConfig(i, n, kind, topo, variant) ==
    [ id          |-> IdOf(i),
      name        |-> kind.name,
      type        |-> kind.type,
      connections |-> connectionsOf(i, n, topo),
      furniture   |-> IF i = n /\ variant = "bed" THEN << "bed", "chest" >>
                      ELSE IF i = n /\ variant = "tv" THEN << "tv", "sofa" >>
                      ELSE IF i = n /\ variant = "mixed"
                      THEN << "chest", "tv", "lamp", "sofa", "table" >>
                      ELSE IF i = n /\ variant = "small"
                      THEN << "lamp", "table", "rug" >>
                      ELSE << >>,
      width       |-> IF i = 1 /\ variant = "dims" THEN 6
                      ELSE IF i = 1 /\ variant = "baddims" THEN -2
                      ELSE IF i = n /\ variant = "mixed" THEN 6
                      ELSE IF i = n /\ variant = "small" THEN 5
                      ELSE 0,
      height      |-> IF i = 1 /\ variant = "dims" THEN 4
                      ELSE IF i = 1 /\ variant = "baddims" THEN 3
                      ELSE IF i = n /\ variant = "mixed" THEN 5
                      ELSE IF i = n /\ variant = "small" THEN 4
                      ELSE 0 ]

Plain == [type |-> "bedroom", name |-> "Bedroom"]

StructuredConfigs ==
    { [ type   |-> "structured",
        width  |-> CanvasW,
        height |-> CanvasH,
        rooms  |-> [i \in 1..n |-> RoomConfig(i, n, kinds[i], topo, variant)] ] :
      << n, kinds, topo, variant >> \in
        { t \in UNION { {n} \X [1..n -> Kinds] \X Topologies \X Variants : n \in 0..MaxRooms } :
            /\ t[4] # "plain" =>
                  /\ t[1] >= 1
                  /\ t[3] = "star"
                  /\ \A i \in 2..t[1] : t[2][i] = Plain
            /\ t[4] \in {"mixed", "small"} => t[1] = 1 } }

\* rooms of the organic and geometric inputs: the first room carries the
\* furniture request, the others ask for an item type that has no rule
AltRoom(i, n, furniture) ==
    [ id          |-> IdOf(i),
      name        |-> Plain.name,
      type        |-> Plain.type,
      connections |-> connectionsOf(i, n, "star"),
      furniture   |-> IF i = 1 THEN furniture ELSE << "lamp" >>,
      width       |-> 0,
      height      |-> 0 ]

AltFurniture == { << >>, << "table" >> }

AltConfigs ==
    { [ type   |-> ty,
        width  |-> CanvasW,
        height |-> CanvasH,
        rooms  |-> [i \in 1..n |-> AltRoom(i, n, f)] ] :
      << ty, n, f >> \in {"organic", "geometric"} \X (0..MaxRooms) \X AltFurniture }

\* a corridor with k rooms of one kind connected to it
SpineConfigs ==
    { [ type   |-> "structured",
        width  |-> CanvasW,
        height |-> CanvasH,
        rooms  |-> [i \in 1..(k + 1) |->
                      RoomConfig(i, k + 1,
                                 IF i = 1 THEN [type |-> "corridor", name |-> "Corridor"]
                                 ELSE kind,
                                 "star", "plain")] ] :
      << k, kind >> \in (1..MaxSpineChildren) \X Kinds }

Configs == StructuredConfigs \cup SpineConfigs \cup AltConfigs

-----------------------------------------------------------------------------
(* ConstraintSolver.rules *)

Rule(w, h, zones, blocksDoor, faces) ==
    [width |-> w, height |-> h, preferredZones |-> zones,
     blocksDoor |-> blocksDoor, faces |-> faces]

InitialRules == [
    bed       |-> Rule(1, 2, << "wall" >>, TRUE, ""),
    chest     |-> Rule(1, 1, << "wall", "center" >>, FALSE, ""),
    table     |-> Rule(2, 2, << "center" >>, FALSE, ""),
    chair     |-> Rule(1, 1, << "center" >>, FALSE, ""),
    rug       |-> Rule(2, 2, << "center" >>, FALSE, ""),
    sofa      |-> Rule(2, 1, << "center", "wall" >>, FALSE, ""),
    tv        |-> Rule(1, 1, << "wall" >>, FALSE, "sofa"),
    throne    |-> Rule(2, 2, << "wall" >>, TRUE, ""),
    bookshelf |-> Rule(2, 1, << "wall" >>, FALSE, ""),
    gold      |-> Rule(1, 1, << "center" >>, FALSE, ""),
    fire      |-> Rule(1, 1, << "center" >>, FALSE, "") ]

-----------------------------------------------------------------------------
(* Initial state: the worker has received a config, nothing is generated *)

NoGrid == [y \in {} |-> 0]

NoOutput == [width |-> 0, height |-> 0, tiles |-> << >>, rooms |-> << >>, valid |-> FALSE]

InitFor(cfgs) ==
    /\ config \in cfgs
    /\ pc = "start"
    /\ strategy = "none"
    /\ allRects = << >>
    /\ placed = << >>
    /\ qi = 0
    /\ stuck = 0
    /\ grid = NoGrid
    /\ roomGrid = NoGrid
    /\ rooms = << >>
    /\ tiles = << >>
    /\ fr = 0
    /\ fi = 0
    /\ placedItems = << >>
    /\ rules = InitialRules
    /\ prevOut = NoOutput
    /\ leaves = << >>
    /\ iterations = 0
    /\ queue = << >>
    /\ ni = 0
    /\ unplacedList = << >>

Init == InitFor(Configs)

-----------------------------------------------------------------------------
(* GeneratorFactory.getGenerator *)

getGenerator(type) ==
    IF type = "structured" THEN "structured"
    ELSE IF type = "organic" THEN "organic"
    ELSE IF type = "geometric" THEN "geometric"
    ELSE "structured"

-----------------------------------------------------------------------------
(* StructuredGenerator.generate: rects and strategy selection *)

\* mutant: the room's own size is not taken off
CenterOnCorner(r, mapW, mapH) ==
    [r EXCEPT !.x = mapW \div 2, !.y = mapH \div 2]

Center(r, mapW, mapH) ==
    [r EXCEPT !.x = (mapW - r.w) \div 2, !.y = (mapH - r.h) \div 2]

Prepare ==
    /\ pc = "start"
    /\ getGenerator(config.type) = "structured"
    /\ LET rects == [i \in 1..Len(config.rooms) |->
                        LET dim == getRoomDimensions(config.rooms[i])
                        IN  Rect(0, 0, dim.w, dim.h, config.rooms[i])]
       IN  /\ allRects' = rects
           /\ strategy' = selectStrategy(rects)
    /\ pc' = "layout"
    /\ UNCHANGED << config, placed, qi, stuck, grid, roomGrid, rooms, tiles,
                    fr, fi, placedItems, rules, prevOut >>
    /\ UNCHANGED variantVars

-----------------------------------------------------------------------------
(* buildSpineLayout *)

\* position of the i-th (0-based) child beside the spine, given the cursors
RECURSIVE packChildren(_, _, _, _, _, _)
packChildren(spine, children, i, cursorA, cursorB, acc) ==
    IF i > Len(children) THEN acc
    ELSE
        LET child == children[i]
            isHorizontal == spine.w >= spine.h
            even == (i - 1) % 2 = 0
            px == IF isHorizontal
                  THEN (IF even THEN cursorA ELSE cursorB)
                  ELSE (IF even THEN spine.x - child.w ELSE right(spine))
            py == IF isHorizontal
                  THEN (IF even THEN spine.y - child.h ELSE bottom(spine))
                  ELSE (IF even THEN cursorA ELSE cursorB)
            step == IF isHorizontal THEN child.w ELSE child.h
            moved == MoveTo(child, [x |-> px, y |-> py])
            acc2 == IF ~checkCollision(moved, acc) THEN Append(acc, moved) ELSE acc
        IN  Let(<< IF even THEN cursorA + step ELSE cursorA,
                   IF even THEN cursorB ELSE cursorB + step,
                   acc2 >>,
                LAMBDA n : packChildren(spine, children, i + 1, n[1], n[2], n[3]))

spineChildren(anchor, rects) ==
    LET isChild(r) == r.room.id # anchor.room.id /\ Includes(anchor.room.connections, r.room.id)
    IN  Filter(rects, isChild)

buildSpineLayout(spine0, rects, mapW, mapH) ==
    Let(Center(spine0, mapW, mapH), LAMBDA spine :
        Let(SortByArea(spineChildren(spine, rects)), LAMBDA children :
            Let(IF spine.w >= spine.h THEN spine.x ELSE spine.y, LAMBDA start :
                packChildren(spine, children, 1, start, start, << spine >>))))

BuildSpineLayout ==
    /\ pc = "layout"
    /\ strategy = "spine"
    /\ placed' = buildSpineLayout(allRects[spineRoom(allRects)], allRects,
                                  config.width, config.height)
    /\ stuck' = 0
    /\ pc' = "leftovers"
    /\ UNCHANGED << config, strategy, allRects, qi, grid, roomGrid, rooms, tiles,
                    fr, fi, placedItems, rules, prevOut >>
    /\ UNCHANGED variantVars

-----------------------------------------------------------------------------
(* buildHubLayout *)

RECURSIVE snapChildren(_, _, _, _)
snapChildren(parent, children, i, acc) ==
    IF i > Len(children) THEN acc
    ELSE LET child == children[i]
         IN  Let(IF findTightSnapPosition(parent, child, acc) # 0
                 THEN Append(acc, snapped(parent, child, acc))
                 ELSE acc,
                 LAMBDA acc2 : snapChildren(parent, children, i + 1, acc2))

buildHubLayout(hub0, rects, mapW, mapH) ==
    Let(Center(hub0, mapW, mapH), LAMBDA hub :
        Let(spineChildren(hub, rects), LAMBDA children :
            snapChildren(hub, children, 1, << hub >>)))

BuildHubLayout ==
    /\ pc = "layout"
    /\ strategy = "hub"
    /\ placed' = buildHubLayout(allRects[hubRoom(allRects)], allRects,
                                config.width, config.height)
    /\ stuck' = 0
    /\ pc' = "leftovers"
    /\ UNCHANGED << config, strategy, allRects, qi, grid, roomGrid, rooms, tiles,
                    fr, fi, placedItems, rules, prevOut >>
    /\ UNCHANGED variantVars

-----------------------------------------------------------------------------
(* placeLeftovers *)

\* one pass of the for loop over the rooms unplaced at the start of the pass
RECURSIVE leftoverPass(_, _, _)
leftoverPass(unplaced, i, acc) ==
    IF i > Len(unplaced) THEN acc
    ELSE LET child == unplaced[i]
             connected(p) == Includes(child.room.connections, p.room.id)
             pi == FindIndex(acc, connected)
         IN  Let(IF pi # 0 /\ findTightSnapPosition(acc[pi], child, acc) # 0
                 THEN Append(acc, snapped(acc[pi], child, acc))
                 ELSE acc,
                 LAMBDA acc2 : leftoverPass(unplaced, i + 1, acc2))

unplacedRects(rects, p) ==
    LET isUnplaced(r) == r.room.id \notin placedIds(p)
    IN  Filter(rects, isUnplaced)

\* mutant: a pass without progress is not counted
nextStuckNeverCounts(s, progress) == s

nextStuck(s, progress) == IF progress THEN s ELSE s + 1

leftoversPending ==
    /\ Len(placed) < Len(allRects)
    /\ stuck < StuckLimit
    /\ Len(unplacedRects(allRects, placed)) # 0

LeftoverPass ==
    /\ pc = "leftovers"
    /\ leftoversPending
    /\ \E unplaced \in { unplacedRects(allRects, placed) } :
       \E after \in { leftoverPass(unplaced, 1, placed) } :
           /\ placed' = after
           /\ stuck' = nextStuck(stuck, Len(after) > Len(placed))
    /\ UNCHANGED << config, pc, strategy, allRects, qi, grid, roomGrid, rooms,
                    tiles, fr, fi, placedItems, rules, prevOut >>
    /\ UNCHANGED variantVars

LeftoversDone ==
    /\ pc = "leftovers"
    /\ ~leftoversPending
    /\ pc' = "raster"
    /\ UNCHANGED << config, strategy, allRects, placed, qi, stuck, grid, roomGrid,
                    rooms, tiles, fr, fi, placedItems, rules, prevOut >>
    /\ UNCHANGED variantVars

-----------------------------------------------------------------------------
(* buildClusterLayout *)

ClusterAnchor ==
    /\ pc = "layout"
    /\ strategy = "cluster"
    /\ IF Len(allRects) = 0
       THEN /\ placed' = << >>
            /\ pc' = "raster"
            /\ UNCHANGED << allRects, qi >>
       ELSE LET sorted == SortByArea(allRects)
            IN  /\ allRects' = sorted
                /\ placed' = << Center(sorted[1], config.width, config.height) >>
                /\ qi' = 2
                /\ pc' = IF Len(sorted) >= 2 THEN "cluster" ELSE "raster"
    /\ UNCHANGED << config, strategy, stuck, grid, roomGrid, rooms, tiles,
                    fr, fi, placedItems, rules, prevOut >>
    /\ UNCHANGED variantVars

\* One iteration of the loop over the queue.  possibleParents is placed in an
\* order drawn by the random comparator; the child goes to the first parent
\* of that order that accepts it, which can be any accepting parent.
ClusterStep ==
    /\ pc = "cluster"
    /\ LET child == allRects[qi]
           accepting == { p \in 1..Len(placed) :
                            findTightSnapPosition(placed[p], child, placed) # 0 }
       IN  IF accepting = {}
           THEN placed' = placed
           ELSE \E p \in accepting :
                    placed' = Append(placed, snapped(placed[p], child, placed))
    /\ qi' = qi + 1
    /\ pc' = IF qi < Len(allRects) THEN "cluster" ELSE "raster"
    /\ UNCHANGED << config, strategy, allRects, stuck, grid, roomGrid, rooms,
                    tiles, fr, fi, placedItems, rules, prevOut >>
    /\ UNCHANGED variantVars

-----------------------------------------------------------------------------
(* generate, step 4: rasterize the placed rects and register the rooms *)

covers(r, x, y, mapW, mapH) ==
    /\ Max(0, r.x) <= x /\ x < Min(mapW, right(r))
    /\ Max(0, r.y) <= y /\ y < Min(mapH, bottom(r))

\* the rects are painted in order, so the last rect covering a cell owns it
ownerAt(p, x, y, mapW, mapH) ==
    LET owners == { i \in 1..Len(p) : covers(p[i], x, y, mapW, mapH) }
    IN  IF owners = {} THEN -1
        ELSE (CHOOSE i \in owners : \A j \in owners : j <= i) - 1

\* mutant: the room is registered under its name
RoomDataByName(r) ==
    [ id |-> r.room.name, name |-> r.room.name, type |-> r.room.type,
      x |-> r.x, y |-> r.y, width |-> r.w, height |-> r.h, doors |-> << >> ]

RoomData(r) ==
    [ id |-> r.room.id, name |-> r.room.name, type |-> r.room.type,
      x |-> r.x, y |-> r.y, width |-> r.w, height |-> r.h, doors |-> << >> ]

Rasterize ==
    /\ pc = "raster"
    /\ roomGrid' = [y \in 0..(config.height - 1) |->
                      [x \in 0..(config.width - 1) |->
                          ownerAt(placed, x, y, config.width, config.height)]]
    /\ grid' = [y \in 0..(config.height - 1) |->
                  [x \in 0..(config.width - 1) |->
                      IF ownerAt(placed, x, y, config.width, config.height) # -1
                      THEN FLOOR ELSE TERRAIN]]
    /\ rooms' = [i \in 1..Len(placed) |-> RoomData(placed[i])]
    /\ pc' = "walls"
    /\ UNCHANGED << config, strategy, allRects, placed, qi, stuck, tiles,
                    fr, fi, placedItems, rules, prevOut >>
    /\ UNCHANGED variantVars

-----------------------------------------------------------------------------
(* generateWalls: one in-place scan, row by row *)

Dirs == << << 0, -1 >>, << 0, 1 >>, << -1, 0 >>, << 1, 0 >> >>

inGrid(x, y, mapW, mapH) == x >= 0 /\ y >= 0 /\ x < mapW /\ y < mapH

\* the test made on the cell (x, y) against the grid as it is when the scan
\* reaches the cell
\* the test with only the first wall condition (edge of void)
becomesWallEdgeOnly(g, rg, x, y, mapW, mapH) ==
    /\ g[y][x] = FLOOR
    /\ \E d \in 1..4 :
        LET nx == x + Dirs[d][1]
            ny == y + Dirs[d][2]
        IN  /\ inGrid(nx, ny, mapW, mapH)
            /\ g[ny][nx] = TERRAIN

becomesWall(g, rg, x, y, mapW, mapH) ==
    /\ g[y][x] = FLOOR
    /\ \E d \in 1..4 :
        LET nx == x + Dirs[d][1]
            ny == y + Dirs[d][2]
        IN  /\ inGrid(nx, ny, mapW, mapH)
            /\ \/ g[ny][nx] = TERRAIN
               \/ /\ g[ny][nx] = FLOOR
                  /\ rg[ny][nx] # -1
                  /\ rg[ny][nx] # rg[y][x]

\* the scan is folded cell by cell within a row, and row by row; each step
\* binds the grid it has produced before the scan moves on
RECURSIVE wallRow(_, _, _, _, _, _)
wallRow(g, rg, x, y, mapW, mapH) ==
    IF x >= mapW THEN g
    ELSE Let(IF becomesWall(g, rg, x, y, mapW, mapH)
             THEN [g EXCEPT ![y][x] = WALL]
             ELSE g,
             LAMBDA g2 : wallRow(g2, rg, x + 1, y, mapW, mapH))

RECURSIVE wallScan(_, _, _, _, _)
wallScan(g, rg, y, mapW, mapH) ==
    IF y >= mapH THEN g
    ELSE Let(wallRow(g, rg, 0, y, mapW, mapH),
             LAMBDA g2 : wallScan(g2, rg, y + 1, mapW, mapH))

generateWalls(g, rg, mapW, mapH) == wallScan(g, rg, 0, mapW, mapH)

GenerateWalls ==
    /\ pc = "walls"
    /\ grid' = generateWalls(grid, roomGrid, config.width, config.height)
    /\ pc' = "doors"
    /\ UNCHANGED << config, strategy, allRects, placed, qi, stuck, roomGrid, rooms,
                    tiles, fr, fi, placedItems, rules, prevOut >>
    /\ UNCHANGED variantVars

-----------------------------------------------------------------------------
(* generateDoors / carveDoor / setDoor / addDoorMeta *)

\* the state threaded through door carving: the grid and mapData.rooms
setDoor(st, x, y) ==
    IF y >= 0 /\ y < st.h /\ x >= 0 /\ x < st.w
    THEN [st EXCEPT !.grid[y][x] = DOOR]
    ELSE st

addDoorMeta(st, roomId, x, y) ==
    LET hasId(rm) == rm.id = roomId
        i == FindIndex(st.rooms, hasId)
    IN  IF i = 0 THEN st
        ELSE IF \E d \in 1..Len(st.rooms[i].doors) :
                    st.rooms[i].doors[d] = [x |-> x, y |-> y]
             THEN st
             ELSE [st EXCEPT !.rooms[i].doors = Append(@, [x |-> x, y |-> y])]

carveVertical(st, rA, rB) ==
    LET xs == Max(rA.x, rB.x)
        xe == Min(right(rA), right(rB))
    IN  IF xe - xs >= 2 /\ (bottom(rA) = rB.y \/ rA.y = bottom(rB))
        THEN LET dx == ((xs + xe) \div 2) - 1
                 boundaryY == IF bottom(rA) = rB.y THEN bottom(rA) ELSE rA.y
             IN  Let(setDoor(st, dx, boundaryY), LAMBDA s1 :
                 Let(setDoor(s1, dx, boundaryY - 1), LAMBDA s2 :
                 Let(setDoor(s2, dx + 1, boundaryY), LAMBDA s3 :
                 Let(setDoor(s3, dx + 1, boundaryY - 1), LAMBDA s4 :
                 Let(addDoorMeta(s4, rA.room.id, dx, boundaryY - 1), LAMBDA s5 :
                 Let(addDoorMeta(s5, rA.room.id, dx + 1, boundaryY - 1), LAMBDA s6 :
                 Let(addDoorMeta(s6, rB.room.id, dx, boundaryY), LAMBDA s7 :
                     addDoorMeta(s7, rB.room.id, dx + 1, boundaryY))))))))
        ELSE st

carveHorizontal(st, rA, rB) ==
    LET ys == Max(rA.y, rB.y)
        ye == Min(bottom(rA), bottom(rB))
    IN  IF ye - ys >= 2 /\ (right(rA) = rB.x \/ rA.x = right(rB))
        THEN LET dy == ((ys + ye) \div 2) - 1
                 boundaryX == IF right(rA) = rB.x THEN right(rA) ELSE rA.x
             IN  Let(setDoor(st, boundaryX, dy), LAMBDA s1 :
                 Let(setDoor(s1, boundaryX - 1, dy), LAMBDA s2 :
                 Let(setDoor(s2, boundaryX, dy + 1), LAMBDA s3 :
                 Let(setDoor(s3, boundaryX - 1, dy + 1), LAMBDA s4 :
                 Let(addDoorMeta(s4, rA.room.id, boundaryX - 1, dy), LAMBDA s5 :
                 Let(addDoorMeta(s5, rA.room.id, boundaryX - 1, dy + 1), LAMBDA s6 :
                 Let(addDoorMeta(s6, rB.room.id, boundaryX, dy), LAMBDA s7 :
                     addDoorMeta(s7, rB.room.id, boundaryX, dy + 1))))))))
        ELSE st

carveDoor(st, rA, rB) ==
    Let(carveVertical(st, rA, rB), LAMBDA s1 : carveHorizontal(s1, rA, rB))

\* the (rA, rB) pairs in the order of the two nested forEach loops
doorPairs(p) ==
    LET RECURSIVE ofRoom(_, _)
        ofRoom(a, c) ==
            IF c > Len(p[a].room.connections) THEN << >>
            ELSE LET hasId(r) == r.room.id = p[a].room.connections[c]
                     b == FindIndex(p, hasId)
                 IN  (IF b # 0 THEN << << a, b >> >> ELSE << >>) \o ofRoom(a, c + 1)
        RECURSIVE from(_)
        from(a) == IF a > Len(p) THEN << >> ELSE ofRoom(a, 1) \o from(a + 1)
    IN  from(1)

RECURSIVE carveAll(_, _, _, _)
carveAll(st, p, pairs, i) ==
    IF i > Len(pairs) THEN st
    ELSE Let(carveDoor(st, p[pairs[i][1]], p[pairs[i][2]]),
             LAMBDA s1 : carveAll(s1, p, pairs, i + 1))

generateDoors(p, g, rms, mapW, mapH) ==
    Let(doorPairs(p), LAMBDA pairs :
        Let([grid |-> g, rooms |-> rms, w |-> mapW, h |-> mapH], LAMBDA st :
            carveAll(st, p, pairs, 1)))

GenerateDoors ==
    /\ pc = "doors"
    /\ \E st \in { generateDoors(placed, grid, rooms, config.width, config.height) } :
           /\ grid' = st.grid
           /\ rooms' = st.rooms
    /\ pc' = "tiles"
    /\ UNCHANGED << config, strategy, allRects, placed, qi, stuck, roomGrid, tiles,
                    fr, fi, placedItems, rules, prevOut >>
    /\ UNCHANGED variantVars

-----------------------------------------------------------------------------
(* generateTiles *)

getFloorSprite(type) ==
    IF Test({"kitchen"}, type) THEN "floor_kitchen"
    ELSE IF Test({"bath", "toilet"}, type) THEN "floor_bathroom"
    ELSE IF Test({"corridor", "hall"}, type) THEN "floor_hallway"
    ELSE "floor_common"

Tile(x, y, sprite, layer) == [x |-> x, y |-> y, sprite |-> sprite, layer |-> layer]

cellTiles(g, rg, cfg, x, y) ==
    LET val == g[y][x]
        rIdx == rg[y][x]
        sprite == IF rIdx # -1 /\ rIdx + 1 <= Len(cfg.rooms)
                  THEN getFloorSprite(cfg.rooms[rIdx + 1].type)
                  ELSE "floor_common"
    IN  << Tile(x, y, "grass", "floor") >> \o
        (IF val = WALL THEN << Tile(x, y, "wall_brick", "wall") >>
         ELSE IF val = FLOOR \/ val = DOOR
         THEN << Tile(x, y, sprite, "floor") >> \o
              (IF val = DOOR THEN << Tile(x, y, "door_wood", "furniture") >> ELSE << >>)
         ELSE << >>)

RECURSIVE tileRow(_, _, _, _, _)
tileRow(g, rg, cfg, x, y) ==
    IF x < 0 THEN << >>
    ELSE tileRow(g, rg, cfg, x - 1, y) \o cellTiles(g, rg, cfg, x, y)

RECURSIVE tileScan(_, _, _, _)
tileScan(g, rg, cfg, y) ==
    IF y < 0 THEN << >>
    ELSE tileScan(g, rg, cfg, y - 1) \o tileRow(g, rg, cfg, cfg.width - 1, y)

generateTiles(g, rg, cfg) == tileScan(g, rg, cfg, cfg.height - 1)

GenerateTiles ==
    /\ pc = "tiles"
    /\ tiles' = tiles \o generateTiles(grid, roomGrid, config)
    /\ fr' = 1
    /\ fi' = 1
    /\ placedItems' = [i \in 1..Len(rooms) |-> << >>]
    /\ pc' = "furnish"
    /\ UNCHANGED << config, strategy, allRects, placed, qi, stuck, grid, roomGrid,
                    rooms, rules, prevOut >>
    /\ UNCHANGED variantVars

-----------------------------------------------------------------------------
(* ConstraintSolver *)

doorsOf(room) == IF "doors" \in DOMAIN room THEN room.doors ELSE << >>

isFloorAt(g, x, y, floorValue) ==
    /\ y \in DOMAIN g
    /\ x \in DOMAIN g[y]
    /\ g[y][x] = floorValue

\* the zone test with the neighbours outside the grid passed over
zoneTypeInGrid(g, x, y, floorValue) ==
    IF \E n \in { << 0, -1 >>, << 1, 0 >>, << 0, 1 >>, << -1, 0 >> } :
           /\ y + n[2] \in DOMAIN g
           /\ x + n[1] \in DOMAIN g[y + n[2]]
           /\ ~isFloorAt(g, x + n[1], y + n[2], floorValue)
    THEN "wall" ELSE "center"

zoneType(g, x, y, floorValue) ==
    IF \E n \in { << 0, -1 >>, << 1, 0 >>, << 0, 1 >>, << -1, 0 >> } :
           ~isFloorAt(g, x + n[1], y + n[2], floorValue)
    THEN "wall" ELSE "center"

\* room.zones as a set: the order of the list is lost in the shuffle
calculateZones(room, g, floorValue) ==
    { [x |-> x, y |-> y, type |-> zoneType(g, x, y, floorValue)] :
        << x, y >> \in { c \in (room.x..(room.x + room.width - 1)) \X
                               (room.y..(room.y + room.height - 1)) :
                           isFloorAt(g, c[1], c[2], floorValue) } }

ruleArea(rls, t) == IF t \in DOMAIN rls THEN rls[t].width * rls[t].height ELSE 1

\* the comparator with the area terms exchanged (ascending area)
itemCompareAscending(rls, a, b) ==
    IF a = "sofa" /\ b = "tv" THEN -1
    ELSE IF a = "tv" /\ b = "sofa" THEN 1
    ELSE ruleArea(rls, a) - ruleArea(rls, b)

itemCompare(rls, a, b) ==
    IF a = "sofa" /\ b = "tv" THEN -1
    ELSE IF a = "tv" /\ b = "sofa" THEN 1
    ELSE ruleArea(rls, b) - ruleArea(rls, a)

RECURSIVE insertItem(_, _, _)
insertItem(rls, sorted, e) ==
    IF sorted = << >> THEN << e >>
    ELSE IF itemCompare(rls, Head(sorted), e) <= 0
         THEN << Head(sorted) >> \o insertItem(rls, Tail(sorted), e)
         ELSE << e >> \o sorted

RECURSIVE sortItems(_, _)
sortItems(rls, items) ==
    IF items = << >> THEN << >>
    ELSE insertItem(rls, sortItems(rls, SubSeq(items, 1, Len(items) - 1)), items[Len(items)])

checkBounds(x, y, w, h, g, floorValue) ==
    \A dx \in 0..(w - 1), dy \in 0..(h - 1) : isFloorAt(g, x + dx, y + dy, floorValue)

\* mutant: the test on the vertical extent is missing its lower half
itemCollisionOpenBelow(x, y, w, h, items) ==
    \E i \in 1..Len(items) :
        /\ x < items[i].x + items[i].width
        /\ x + w > items[i].x
        /\ y < items[i].y + items[i].height
        /\ y > items[i].y

itemCollision(x, y, w, h, items) ==
    \E i \in 1..Len(items) :
        /\ x < items[i].x + items[i].width
        /\ x + w > items[i].x
        /\ y < items[i].y + items[i].height
        /\ y + h > items[i].y

checkDoorBlocking(x, y, w, h, doors) ==
    \E d \in 1..Len(doors) :
        /\ x <= doors[d].x /\ x + w > doors[d].x
        /\ y <= doors[d].y /\ y + h > doors[d].y

\* centres are kept doubled to stay in the integers; dot > 0.5 is
\* f.d > 0 and 4 (f.d)^2 > |d|^2, and equality has no integer solution
\* the same test under the other convention named in the source's comment
\* (0 = right, 90 = down, 180 = left, 270 = up)
checkFacingRightZero(x, y, w, h, rot, target) ==
    LET dx == (2 * target.x + target.width) - (2 * x + w)
        dy == (2 * target.y + target.height) - (2 * y + h)
        fx == IF rot = 0 THEN 1 ELSE IF rot = 180 THEN -1 ELSE 0
        fy == IF rot = 270 THEN -1 ELSE IF rot = 90 THEN 1 ELSE 0
        dot == fx * dx + fy * dy
    IN  IF dx = 0 /\ dy = 0 THEN TRUE
        ELSE dot > 0 /\ 4 * dot * dot > dx * dx + dy * dy

checkFacing(x, y, w, h, rot, target) ==
    LET dx == (2 * target.x + target.width) - (2 * x + w)
        dy == (2 * target.y + target.height) - (2 * y + h)
        fx == IF rot = 90 THEN 1 ELSE IF rot = 270 THEN -1 ELSE 0
        fy == IF rot = 0 THEN -1 ELSE IF rot = 180 THEN 1 ELSE 0
        dot == fx * dx + fy * dy
    IN  IF dx = 0 /\ dy = 0 THEN TRUE
        ELSE dot > 0 /\ 4 * dot * dot > dx * dx + dy * dy

\* the rotations tried from the last to the first
RotationsReversed == << 270, 180, 90, 0 >>

Rotations == << 0, 90, 180, 270 >>

rotW(rule, rot) == IF rot = 0 \/ rot = 180 THEN rule.width ELSE rule.height
rotH(rule, rot) == IF rot = 0 \/ rot = 180 THEN rule.height ELSE rule.width

\* the four checks made on one candidate cell and one rotation
fits(rule, c, rot, room, g, floorValue, items) ==
    LET w == rotW(rule, rot)
        h == rotH(rule, rot)
        isTarget(p) == p.type = rule.faces
        t == FindIndex(items, isTarget)
    IN  /\ checkBounds(c.x, c.y, w, h, g, floorValue)
        /\ ~itemCollision(c.x, c.y, w, h, items)
        /\ ~(rule.blocksDoor /\ checkDoorBlocking(c.x, c.y, w, h, doorsOf(room)))
        /\ (rule.faces # "" /\ t # 0) => checkFacing(c.x, c.y, w, h, rot, items[t])

firstRotation(rule, c, room, g, floorValue, items) ==
    LET ok(rot) == fits(rule, c, rot, room, g, floorValue, items)
    IN  FindIndex(Rotations, ok)

\* zonesToTry after the two pushes; it is the rule's own list when that list
\* is not empty, so the pushes change the rule table
\* the zones tried when the fallback pushes are left out
zonesToTryPreferred(rule) ==
    IF Len(rule.preferredZones) > 0 THEN rule.preferredZones
    ELSE << "wall", "center" >>

zonesToTry(rule) ==
    LET z0 == IF Len(rule.preferredZones) > 0 THEN rule.preferredZones
              ELSE << "wall", "center" >>
        z1 == IF ~Includes(z0, "wall") THEN Append(z0, "wall") ELSE z0
    IN  IF ~Includes(z1, "center") THEN Append(z1, "center") ELSE z1

rulesAfter(rls, t) ==
    IF Len(rls[t].preferredZones) > 0
    THEN [rls EXCEPT ![t].preferredZones = zonesToTry(rls[t])]
    ELSE rls

\* The candidates of a zone are visited in the order of a random shuffle and
\* the first one that fits in some rotation is taken: any fitting candidate of
\* the first zone that has one can be the result.
placements(rule, room, g, floorValue, items) ==
    Let(calculateZones(room, g, floorValue), LAMBDA zones :
    Let(zonesToTry(rule), LAMBDA zs :
        LET fitting(zt) == { c \in zones : c.type = zt /\
                                firstRotation(rule, c, room, g, floorValue, items) # 0 }
            hasFit(zt) == fitting(zt) # {}
        IN  Let(FindIndex(zs, hasFit), LAMBDA zi :
                IF zi = 0 THEN {}
                ELSE { [x |-> c.x, y |-> c.y,
                        rotation |-> Rotations[firstRotation(rule, c, room, g,
                                                             floorValue, items)]] :
                       c \in fitting(zs[zi]) })))

PlacedItem(type, rule, pl) ==
    [ type |-> type, x |-> pl.x, y |-> pl.y,
      width |-> rotW(rule, pl.rotation), height |-> rotH(rule, pl.rotation),
      rotation |-> pl.rotation ]

FurnitureTile(type, pl) ==
    [x |-> pl.x, y |-> pl.y, sprite |-> type, rotation |-> pl.rotation, layer |-> "furniture"]

-----------------------------------------------------------------------------
(* the furniture requests each generator hands to placeItems *)

floorValueOf(gen) == IF gen = "geometric" THEN 0 ELSE 1

Mirror(id) == id \o "_mirror"

isMirror(id) == \E i \in 1..6 : id = Mirror(IdOf(i))

originalId(id) == IF isMirror(id) THEN IdOf(CHOOSE i \in 1..6 : id = Mirror(IdOf(i))) ELSE id

itemsFor(gen, cfg, room) ==
    LET lookup == IF gen = "geometric" THEN originalId(room.id) ELSE room.id
        hasId(c) == c.id = lookup
        ci == FindIndex(cfg.rooms, hasId)
        requested == IF ci # 0 THEN cfg.rooms[ci].furniture ELSE << >>
    IN  IF gen = "structured" THEN requested
        ELSE IF Len(requested) # 0 THEN requested
        ELSE IF gen = "geometric" THEN << "chair", "table" >>
        ELSE << "chest" >>

sortedItemsOf(r) ==
    sortItems(rules, itemsFor(getGenerator(config.type), config, rooms[r]))

-----------------------------------------------------------------------------
(* placeItems: one iteration of the loop over sortedItems *)

FurnishItem ==
    /\ pc = "furnish"
    /\ fr <= Len(rooms)
    /\ fi <= Len(sortedItemsOf(fr))
    /\ \E itemType \in { sortedItemsOf(fr)[fi] } :
           IF itemType \notin DOMAIN rules
           THEN UNCHANGED << rules, placedItems, tiles >>
           ELSE \E rule \in { rules[itemType] } :
                \E ps \in { placements(rule, rooms[fr], grid,
                                       floorValueOf(getGenerator(config.type)),
                                       placedItems[fr]) } :
                    /\ rules' = rulesAfter(rules, itemType)
                    /\ IF ps = {}
                       THEN UNCHANGED << placedItems, tiles >>
                       ELSE \E pl \in ps :
                              /\ placedItems' = [placedItems EXCEPT ![fr] =
                                                   Append(@, PlacedItem(itemType, rule, pl))]
                              /\ tiles' = Append(tiles, FurnitureTile(itemType, pl))
    /\ fi' = fi + 1
    /\ UNCHANGED << config, pc, strategy, allRects, placed, qi, stuck, grid,
                    roomGrid, rooms, fr, prevOut >>
    /\ UNCHANGED variantVars

\* placeItems returns and the forEach over mapData.rooms moves on
FurnishRoomDone ==
    /\ pc = "furnish"
    /\ fr <= Len(rooms)
    /\ fi > Len(sortedItemsOf(fr))
    /\ fr' = fr + 1
    /\ fi' = 1
    /\ UNCHANGED << config, pc, strategy, allRects, placed, qi, stuck, grid,
                    roomGrid, rooms, tiles, placedItems, rules, prevOut >>
    /\ UNCHANGED variantVars

\* generate returns mapData
Finish ==
    /\ pc = "furnish"
    /\ fr > Len(rooms)
    /\ pc' = "done"
    /\ UNCHANGED << config, strategy, allRects, placed, qi, stuck, grid, roomGrid,
                    rooms, tiles, fr, fi, placedItems, rules, prevOut >>
    /\ UNCHANGED variantVars

mapData == [width |-> config.width, height |-> config.height,
            tiles |-> tiles, rooms |-> rooms, valid |-> TRUE]

-----------------------------------------------------------------------------
(* GeometricGenerator.generate: hull, rooms in mirrored pairs *)

\* (x-cx)^2/rx^2 + (y-cy)^2/ry^2 <= 1, cleared of its denominators (rx and
\* ry are not 0; the only lattice points on the curve are its four
\* vertices, where the quotients are exact)
inHull(x, y, cx, cy, rx, ry) ==
    (x - cx) * (x - cx) * ry * ry + (y - cy) * (y - cy) * rx * rx <= rx * rx * ry * ry

hullTile(x, y, cx, cy, rx, ry) ==
    IF inHull(x, y, cx, cy, rx, ry)
    THEN << Tile(x, y, "floor_stone", "floor") >>
    ELSE IF \E n \in { << 0, 1 >>, << 0, -1 >>, << 1, 0 >>, << -1, 0 >> } :
                inHull(x + n[1], y + n[2], cx, cy, rx, ry)
         THEN << Tile(x, y, "wall_brick", "wall") >>
         ELSE << >>

RECURSIVE hullRow(_, _, _, _, _, _)
hullRow(x, y, cx, cy, rx, ry) ==
    IF x < 0 THEN << >>
    ELSE hullRow(x - 1, y, cx, cy, rx, ry) \o hullTile(x, y, cx, cy, rx, ry)

RECURSIVE hullTiles(_, _, _, _, _, _)
hullTiles(y, mapW, cx, cy, rx, ry) ==
    IF y < 0 THEN << >>
    ELSE hullTiles(y - 1, mapW, cx, cy, rx, ry) \o hullRow(mapW - 1, y, cx, cy, rx, ry)

GeoRoom(id, x, y, w, h, type) ==
    [id |-> id, x |-> x, y |-> y, width |-> w, height |-> h, type |-> type]

\* the rooms after the first one, each followed by its mirror
RECURSIVE mirroredPairs(_, _, _, _)
mirroredPairs(cfgRooms, i, cx, currentY) ==
    IF i > Len(cfgRooms) THEN << >>
    ELSE << GeoRoom(cfgRooms[i].id, cx - 12 - 6, currentY, 6, 6, cfgRooms[i].type),
            GeoRoom(Mirror(cfgRooms[i].id), cx + 12, currentY, 6, 6, cfgRooms[i].type) >>
         \o mirroredPairs(cfgRooms, i + 1, cx, currentY + 6 + 2)

geometricRooms(cfg) ==
    LET cx == cfg.width \div 2
        cy == cfg.height \div 2
    IN  IF Len(cfg.rooms) = 0 THEN << >>
        ELSE << GeoRoom(cfg.rooms[1].id, cx - 4, cy - 4, 8, 8, cfg.rooms[1].type) >>
             \o mirroredPairs(cfg.rooms, 2, cx, 4)

GeometricGenerate ==
    /\ pc = "start"
    /\ getGenerator(config.type) = "geometric"
    /\ LET cx == config.width \div 2
           cy == config.height \div 2
           rx == (config.width \div 2) - 2
           ry == (config.height \div 2) - 4
       IN  /\ grid' = [y \in 0..(config.height - 1) |->
                         [x \in 0..(config.width - 1) |->
                             IF inHull(x, y, cx, cy, rx, ry) THEN 0 ELSE 1]]
           /\ tiles' = hullTiles(config.height - 1, config.width, cx, cy, rx, ry)
    /\ rooms' = geometricRooms(config)
    /\ placedItems' = [i \in 1..Len(geometricRooms(config)) |-> << >>]
    /\ fr' = 1
    /\ fi' = 1
    /\ pc' = "furnish"
    /\ UNCHANGED << config, strategy, allRects, placed, qi, stuck, roomGrid,
                    rules, prevOut >>
    /\ UNCHANGED variantVars

-----------------------------------------------------------------------------
(* OrganicGenerator.generate: cellular automaton, carved rooms *)

\* initial grids the random fill is drawn from
OrganicSeeds == {"empty", "full", "stripes"}

seedGrid(seed, mapW, mapH) ==
    [y \in 0..(mapH - 1) |-> [x \in 0..(mapW - 1) |->
        IF seed = "full" THEN 1
        ELSE IF seed = "stripes" THEN (IF x % 3 = 0 THEN 0 ELSE 1)
        ELSE 0]]

countAliveNeighbors(g, x, y) ==
    Cardinality({ d \in (-1..1) \X (-1..1) :
                    /\ d # << 0, 0 >>
                    /\ \/ ~(y + d[2] \in DOMAIN g /\ x + d[1] \in DOMAIN g[y + d[2]])
                       \/ g[y + d[2]][x + d[1]] = 1 })

doSimulationStep(g) ==
    [y \in DOMAIN g |-> [x \in DOMAIN g[y] |->
        IF g[y][x] = 1
        THEN (IF countAliveNeighbors(g, x, y) < 4 THEN 0 ELSE 1)
        ELSE (IF countAliveNeighbors(g, x, y) > 4 THEN 1 ELSE 0)]]

\* the four passes of the simulation loop
simulate(g0) ==
    Let(doSimulationStep(g0), LAMBDA g1 :
    Let(doSimulationStep(g1), LAMBDA g2 :
    Let(doSimulationStep(g2), LAMBDA g3 :
        doSimulationStep(g3))))

\* Math.floor(Math.random() * m), Math.random() in [0, 1)
randomBelow(m) == IF m > 0 THEN 0..(m - 1) ELSE m..0

OrganicRoom(id, x, y, type) ==
    [id |-> id, x |-> x, y |-> y, width |-> 8, height |-> 8, type |-> type]

carved(g, rms, mapW, mapH) ==
    [y \in DOMAIN g |-> [x \in DOMAIN g[y] |->
        IF \E i \in 1..Len(rms) :
               /\ rms[i].x <= x /\ x < rms[i].x + 8
               /\ rms[i].y <= y /\ y < rms[i].y + 8
        THEN 1 ELSE g[y][x]]]

\* The floor, wall and decoration tiles of the cave take their sprites from
\* a noise field and a random scatter; tiles keeps the furniture layer only.
OrganicGenerate ==
    /\ pc = "start"
    /\ getGenerator(config.type) = "organic"
    /\ \E seed \in OrganicSeeds :
       \E pos \in [1..Len(config.rooms) ->
                     { [x |-> ox + 4, y |-> oy + 4] :
                         ox \in randomBelow(config.width - 8 - 8),
                         oy \in randomBelow(config.height - 8 - 8) }] :
       \E g0 \in { seedGrid(seed, config.width, config.height) } :
       \E g4 \in { simulate(g0) } :
       \E rms \in { [i \in 1..Len(config.rooms) |->
                        OrganicRoom(config.rooms[i].id, pos[i].x, pos[i].y,
                                    config.rooms[i].type)] } :
              /\ grid' = carved(g4, rms, config.width, config.height)
              /\ rooms' = rms
              /\ placedItems' = [i \in 1..Len(rms) |-> << >>]
    /\ tiles' = << >>
    /\ fr' = 1
    /\ fi' = 1
    /\ pc' = "furnish"
    /\ UNCHANGED << config, strategy, allRects, placed, qi, stuck, roomGrid,
                    rules, prevOut >>
    /\ UNCHANGED variantVars

-----------------------------------------------------------------------------
(* LayoutWorker.generateMap called again with the same config *)

Rerun ==
    /\ pc = "done"
    /\ ~prevOut.valid
    /\ prevOut' = mapData
    /\ pc' = "start"
    /\ strategy' = "none"
    /\ allRects' = << >>
    /\ placed' = << >>
    /\ qi' = 0
    /\ stuck' = 0
    /\ grid' = NoGrid
    /\ roomGrid' = NoGrid
    /\ rooms' = << >>
    /\ tiles' = << >>
    /\ fr' = 0
    /\ fi' = 0
    /\ placedItems' = << >>
    /\ UNCHANGED << config, rules >>
    /\ UNCHANGED variantVars

-----------------------------------------------------------------------------

Next ==
    \/ Prepare
    \/ BuildSpineLayout
    \/ BuildHubLayout
    \/ LeftoverPass
    \/ LeftoversDone
    \/ ClusterAnchor
    \/ ClusterStep
    \/ Rasterize
    \/ GenerateWalls
    \/ GenerateDoors
    \/ GenerateTiles
    \/ FurnishItem
    \/ FurnishRoomDone
    \/ Finish
    \/ GeometricGenerate
    \/ OrganicGenerate

Spec == Init /\ [][Next]_vars

-----------------------------------------------------------------------------
(* Specifications *)

\* StructuredGenerator.generate runs to its return: the calls are
\* synchronous, so every step of the pipeline is taken
FairConfigs ==
    { c \in StructuredConfigs :
        /\ \A i \in 1..Len(c.rooms) : c.rooms[i].furniture \in { << >>, << "bed", "chest" >> }
        /\ \A i \in 3..Len(c.rooms) : c.rooms[i].type = Plain.type }

InitFair == InitFor(FairConfigs)

NextStructured ==
    \/ Prepare
    \/ BuildSpineLayout
    \/ BuildHubLayout
    \/ LeftoverPass
    \/ LeftoversDone
    \/ ClusterAnchor
    \/ ClusterStep
    \/ Rasterize
    \/ GenerateWalls
    \/ GenerateDoors
    \/ GenerateTiles
    \/ FurnishItem
    \/ FurnishRoomDone
    \/ Finish

FairSpec == InitFair /\ [][NextStructured]_vars /\ WF_vars(NextStructured)

\* two runs of generateMap on the same config, on a smaller family of
\* structured inputs
RerunConfigs ==
    { c \in StructuredConfigs :
        /\ \A i \in 2..Len(c.rooms) : c.rooms[i].type = Plain.type
        /\ \A i \in 1..Len(c.rooms) : c.rooms[i].width = 0
        /\ \A i \in 1..Len(c.rooms) : c.rooms[i].furniture # << "tv", "sofa" >>
        /\ \A i \in 1..Len(c.rooms) :
              c.rooms[i].furniture # << >> => c.rooms[i].type = "bath"
        /\ Len(c.rooms) >= 2 =>
              /\ Len(c.rooms[2].connections) > 0
              /\ \A i \in 1..Len(c.rooms) : c.rooms[i].furniture = << >> }

InitRerun == InitFor(RerunConfigs)

NextRerun == NextStructured \/ Rerun

SpecRerun == InitRerun /\ [][NextRerun]_vars

-----------------------------------------------------------------------------
(* Vocabulary of the properties *)

generator == getGenerator(config.type)

inputIds == { config.rooms[i].id : i \in 1..Len(config.rooms) }

outputIds == { rooms[i].id : i \in 1..Len(rooms) }

cellsOf(x, y, w, h) == (x..(x + w - 1)) \X (y..(y + h - 1))

rectCells(r) == cellsOf(r.x, r.y, r.w, r.h)

roomCells(rm) == cellsOf(rm.x, rm.y, rm.width, rm.height)

footprint(item) == cellsOf(item.x, item.y, item.width, item.height)

laidOut == pc \notin {"start", "layout", "cluster", "leftovers"}

registered == pc \in {"walls", "doors", "tiles", "furnish", "done"}

-----------------------------------------------------------------------------
\* C1: in the structured generator no two distinct placed rectangles share a
\* cell, at any point of the layout, and so no two rooms of the TileMap do.
C1_NoRoomOverlap ==
    generator = "structured" =>
        /\ \A i, j \in 1..Len(placed) :
              i # j => rectCells(placed[i]) \cap rectCells(placed[j]) = {}
        /\ \A i, j \in 1..Len(rooms) :
              i # j => roomCells(rooms[i]) \cap roomCells(rooms[j]) = {}

\* a finished cluster layout of three rooms, two of them edge to edge
C1_Witness ==
    /\ pc = "done"
    /\ strategy = "cluster"
    /\ Len(rooms) = 3
    /\ \E i, j \in 1..3 : i # j /\ bottom(placed[i]) = placed[j].y
                          /\ placed[i].x < right(placed[j]) /\ placed[j].x < right(placed[i])

-----------------------------------------------------------------------------
\* C3: in every placeItems call no two emitted footprints share a cell, and
\* no footprint of an item whose rule has blocksDoor covers a cell listed in
\* the room's doors.
C3_FurnitureApart ==
    \A r \in 1..Len(placedItems) :
        /\ \A i, j \in 1..Len(placedItems[r]) :
              i # j => footprint(placedItems[r][i]) \cap footprint(placedItems[r][j]) = {}
        /\ \A i \in 1..Len(placedItems[r]) :
              InitialRules[placedItems[r][i].type].blocksDoor =>
                  \A d \in 1..Len(doorsOf(rooms[r])) :
                      << doorsOf(rooms[r])[d].x, doorsOf(rooms[r])[d].y >>
                          \notin footprint(placedItems[r][i])

\* a room with carved doors received both the bed and the chest
C3_Witness ==
    \E r \in 1..Len(placedItems) :
        /\ Len(doorsOf(rooms[r])) > 0
        /\ Len(placedItems[r]) = 2
        /\ placedItems[r][1].type = "bed"
        /\ placedItems[r][2].type = "chest"

-----------------------------------------------------------------------------
\* C4 (as claimed): every cell of every emitted footprint is a floor cell
\* inside the bounds of the room the item was placed for.
C4_InsideOwnRoom ==
    \A r \in 1..Len(placedItems) : \A i \in 1..Len(placedItems[r]) :
        \A c \in footprint(placedItems[r][i]) :
            /\ c \in roomCells(rooms[r])
            /\ isFloorAt(grid, c[1], c[2], floorValueOf(generator))

-----------------------------------------------------------------------------
\* C6 (as claimed): the room ids of the output are room ids of the input,
\* for every generator.
C6_IdsSubset == pc = "done" => outputIds \subseteq inputIds

\* C6 (amended): the structured and the organic generator emit input ids
\* only; the geometric generator emits, for every input room but the first,
\* the id and the id followed by "_mirror".
C6_IdsFromInput ==
    pc \in {"furnish", "done"} =>
        /\ generator # "geometric" => outputIds \subseteq inputIds
        /\ generator = "geometric" =>
              outputIds = inputIds \cup
                  { config.rooms[i].id \o "_mirror" : i \in 2..Len(config.rooms) }

\* a geometric map with a mirrored room, and its furniture done
C6_Witness ==
    /\ pc = "done"
    /\ generator = "geometric"
    /\ "r2_mirror" \in outputIds

-----------------------------------------------------------------------------
(* the anchor of a layout, read off the input *)

dimsOf(i) == getRoomDimensions(config.rooms[i])

areaOf(i) == dimsOf(i).w * dimsOf(i).h

spineRule(room) ==
    \/ Test({"corridor", "hall", "passage", "gallery"}, room.type)
    \/ Test({"corridor", "hall", "passage"}, room.name)

hubRule(room) ==
    /\ \/ Test({"living", "common", "lobby", "foyer", "main"}, room.type)
       \/ Test({"living", "common", "lobby"}, room.name)
    /\ Len(room.connections) >= 2

firstIndex(S) == CHOOSE i \in S : \A j \in S : i <= j

spineIndexes == { i \in 1..Len(config.rooms) : spineRule(config.rooms[i]) }

hubIndexes == { i \in 1..Len(config.rooms) : hubRule(config.rooms[i]) }

largestIndexes ==
    { i \in 1..Len(config.rooms) : \A j \in 1..Len(config.rooms) : areaOf(j) <= areaOf(i) }

anchorIndex ==
    IF strategy = "spine" THEN firstIndex(spineIndexes)
    ELSE IF strategy = "hub" THEN firstIndex(hubIndexes)
    ELSE firstIndex(largestIndexes)

\* C7: once the layout has started, the anchor room is among the placed
\* rectangles, centred on the canvas, and it is in the rooms of the output.
C7_AnchorPlaced ==
    (generator = "structured" /\ Len(config.rooms) > 0 /\ pc \notin {"start", "layout"}) =>
        /\ \E i \in 1..Len(placed) :
              /\ placed[i].room.id = config.rooms[anchorIndex].id
              /\ placed[i].x = (config.width - placed[i].w) \div 2
              /\ placed[i].y = (config.height - placed[i].h) \div 2
        /\ registered =>
              \E i \in 1..Len(rooms) :
                  /\ rooms[i].id = config.rooms[anchorIndex].id
                  /\ rooms[i].x = (config.width - rooms[i].width) \div 2
                  /\ rooms[i].y = (config.height - rooms[i].height) \div 2

\* a finished hub layout whose hub is not the first room of the input
C7_Witness ==
    /\ pc = "done"
    /\ strategy = "hub"
    /\ anchorIndex = 2
    /\ Len(rooms) = 3
    /\ rooms[1].id = "r2"

-----------------------------------------------------------------------------
\* C8 (as claimed): Spine iff some corridor/hall/passage room has more than
\* one connection or an aspect ratio above 2:1; else Hub iff some
\* living/common/lobby/foyer room has at least 2 connections; else Cluster.
claimedSpine(i) ==
    /\ \/ Test({"corridor", "hall", "passage"}, config.rooms[i].type)
       \/ Test({"corridor", "hall", "passage"}, config.rooms[i].name)
    /\ \/ Len(config.rooms[i].connections) > 1
       \/ dimsOf(i).w > 2 * dimsOf(i).h
       \/ dimsOf(i).h > 2 * dimsOf(i).w

claimedHub(i) ==
    /\ \/ Test({"living", "common", "lobby", "foyer"}, config.rooms[i].type)
       \/ Test({"living", "common", "lobby", "foyer"}, config.rooms[i].name)
    /\ Len(config.rooms[i].connections) >= 2

-----------------------------------------------------------------------------
(* reachability over Floor and Door cells *)

passable ==
    { c \in (0..(config.width - 1)) \X (0..(config.height - 1)) :
        grid[c[2]][c[1]] \in {FLOOR, DOOR} }

adjacent(a, b) ==
    \/ a[1] = b[1] /\ (a[2] = b[2] + 1 \/ a[2] = b[2] - 1)
    \/ a[2] = b[2] /\ (a[1] = b[1] + 1 \/ a[1] = b[1] - 1)

RECURSIVE flood(_, _, _)
flood(open, seen, frontier) ==
    IF frontier = {} THEN seen
    ELSE LET next == { c \in open \ seen : \E f \in frontier : adjacent(c, f) }
         IN  flood(open, seen \cup next, next)

reachedFromRoot ==
    LET start == passable \cap rectCells(placed[1])
    IN  flood(passable, start, start)

\* the declared connections, followed in either direction, link every room
RECURSIVE linked(_, _)
linked(seen, frontier) ==
    IF frontier = {} THEN seen
    ELSE LET next == { i \in 1..Len(config.rooms) :
                         /\ i \notin seen
                         /\ \E j \in frontier :
                               \/ Includes(config.rooms[j].connections, config.rooms[i].id)
                               \/ Includes(config.rooms[i].connections, config.rooms[j].id) }
         IN  linked(seen \cup next, next)

graphConnected == Len(config.rooms) = 0 \/ linked({1}, {1}) = 1..Len(config.rooms)

explicitDimsPositive ==
    \A i \in 1..Len(config.rooms) : config.rooms[i].width >= 0 /\ config.rooms[i].height >= 0

\* C2 (as claimed, and taken on the inputs that favour it: positive
\* dimensions, a connected graph, every room placed and holding a Floor or
\* Door cell): in the finished TileMap a 4-connected walk over Floor and Door
\* cells joins every room to the anchor room.
C2_AllReachable ==
    ( /\ pc = "done"
      /\ generator = "structured"
      /\ explicitDimsPositive
      /\ graphConnected
      /\ Len(rooms) = Len(config.rooms)
      /\ \A i \in 1..Len(rooms) : roomCells(rooms[i]) \cap passable # {} ) =>
        \A i \in 1..Len(rooms) : roomCells(rooms[i]) \cap reachedFromRoot # {}

-----------------------------------------------------------------------------
\* C9 (as claimed): a RoomGraph with a non-positive explicit room dimension
\* is rejected before any room is placed, and no TileMap comes out of it.
malformed ==
    \E i \in 1..Len(config.rooms) : config.rooms[i].width < 0 \/ config.rooms[i].height < 0

C9_MalformedRejected ==
    malformed => (placed = << >> /\ rooms = << >> /\ pc # "done")

-----------------------------------------------------------------------------
\* C10: structured generation comes to its return, with the leftover loop
\* stopped by its count of passes without progress, and the rooms of the
\* TileMap are exactly the rooms that were placed.
C10_Terminates ==
    generator = "structured" =>
        <>( /\ pc = "done"
            /\ stuck <= StuckLimit
            /\ outputIds = placedIds(placed)
            /\ outputIds \subseteq inputIds )

\* a finished map that lacks a room the leftover loop gave up on
C10_Witness ==
    /\ pc = "done"
    /\ generator = "structured"
    /\ ~malformed
    /\ stuck = StuckLimit
    /\ Len(rooms) < Len(config.rooms)

-----------------------------------------------------------------------------
\* C5 (as claimed): a second run of generateMap on the same config returns
\* the TileMap of the first run.
C5_SameOutput == (pc = "done" /\ prevOut.valid) => mapData = prevOut

-----------------------------------------------------------------------------
\* C11 (as claimed): every rectangle the structured layout has placed beside
\* the anchor, by spine packing or by the snap search, lies within the canvas.
inCanvas(r) ==
    /\ 0 <= r.x
    /\ 0 <= r.y
    /\ right(r) <= config.width
    /\ bottom(r) <= config.height

C11_WithinCanvas ==
    (generator = "structured" /\ ~malformed) =>
        \A i \in 2..Len(placed) : inCanvas(placed[i])

-----------------------------------------------------------------------------
\* C12 (as claimed): in a finished Spine layout every room the corridor lists
\* as a connection is placed, touches the corridor along an edge over at least
\* 2 cells, and has a door to it recorded.
spineRect == placed[1]

touchOverlap(a, b) ==
    IF bottom(a) = b.y \/ a.y = bottom(b)
    THEN Min(right(a), right(b)) - Max(a.x, b.x)
    ELSE IF right(a) = b.x \/ a.x = right(b)
    THEN Min(bottom(a), bottom(b)) - Max(a.y, b.y)
    ELSE 0

C12_SpineChildrenJoined ==
    (generator = "structured" /\ ~malformed /\ pc = "done" /\ strategy = "spine") =>
        \A c \in 1..Len(spineRect.room.connections) :
            \E i \in 2..Len(placed) :
                /\ placed[i].room.id = spineRect.room.connections[c]
                /\ touchOverlap(spineRect, placed[i]) >= 2
                /\ Len(rooms[i].doors) > 0

areaSorted(s) ==
    \A i, j \in 1..Len(s) :
        i < j => /\ ruleArea(InitialRules, s[i]) >= ruleArea(InitialRules, s[j])
                 /\ ~(s[i] = "tv" /\ s[j] = "sofa")

sameItems(s, t) ==
    /\ Len(s) = Len(t)
    /\ \A e \in Range(s) \cup Range(t) :
          Cardinality({ i \in 1..Len(s) : s[i] = e }) =
          Cardinality({ i \in 1..Len(t) : t[i] = e })

placedTypes(r) == [k \in 1..Len(placedItems[r]) |-> placedItems[r][k].type]

C14_SofaFirstThenArea ==
    (pc = "furnish" /\ fr <= Len(rooms)) =>
        /\ areaSorted(sortedItemsOf(fr))
        /\ sameItems(sortedItemsOf(fr),
                     itemsFor(getGenerator(config.type), config, rooms[fr]))
        /\ areaSorted(placedTypes(fr))
        /\ \A k \in 1..Len(placedItems[fr]) :
              \E i \in 1..(fi - 1) : sortedItemsOf(fr)[i] = placedItems[fr][k].type

\* a sofa and a tv both placed, sofa first, from a request that names the tv
\* first and a smaller item ahead of a larger one
C14_Witness ==
    /\ pc = "furnish"
    /\ fr <= Len(rooms)
    /\ itemsFor(getGenerator(config.type), config, rooms[fr])
         = << "chest", "tv", "lamp", "sofa", "table" >>
    /\ sortedItemsOf(fr) = << "table", "sofa", "chest", "tv", "lamp" >>
    /\ \E a, b \in 1..Len(placedItems[fr]) :
          /\ a < b
          /\ placedItems[fr][a].type = "sofa"
          /\ placedItems[fr][b].type = "tv"

\* C15: a tv that is placed while a sofa is already placed in the room is
\* stored with a rotation whose unit vector (0 = up, 90 = right, 180 = down,
\* 270 = left) has a normalised dot product above 0.5 with the vector from
\* the tv's centre to the sofa's centre; a tv placed with no sofa in the room
\* is not held to that test.
unitX(rot) == IF rot = 90 THEN 1 ELSE IF rot = 270 THEN -1 ELSE 0

unitY(rot) == IF rot = 0 THEN -1 ELSE IF rot = 180 THEN 1 ELSE 0

\* twice the vector between the centres, so that halves stay integers
towardsX(item, target) == (2 * target.x + target.width) - (2 * item.x + item.width)

towardsY(item, target) == (2 * target.y + target.height) - (2 * item.y + item.height)

\* dot / dist > 1/2, written without the square root
facesTarget(item, target) ==
    LET dx == towardsX(item, target)
        dy == towardsY(item, target)
        dot == unitX(item.rotation) * dx + unitY(item.rotation) * dy
    IN  dot > 0 /\ 4 * dot * dot > dx * dx + dy * dy

C15_TvFacesSofa ==
    \A r \in 1..Len(placedItems) :
        \A k \in 1..Len(placedItems[r]) :
            placedItems[r][k].type = "tv" =>
                \A t \in 1..(k - 1) :
                    (placedItems[r][t].type = "sofa"
                        /\ \A u \in 1..(t - 1) : placedItems[r][u].type # "sofa") =>
                        facesTarget(placedItems[r][k], placedItems[r][t])

\* a tv stored turned to the left, its sofa to the left of it and not in
\* the same row
C15_Witness ==
    \E r \in 1..Len(placedItems) :
        \E t, k \in 1..Len(placedItems[r]) :
            /\ t < k
            /\ placedItems[r][t].type = "sofa"
            /\ placedItems[r][k].type = "tv"
            /\ placedItems[r][k].rotation = 270
            /\ towardsY(placedItems[r][k], placedItems[r][t]) # 0

\* C16 (as claimed): whatever calls of placeItems have been made, the rule
\* table is the one the class was loaded with: every rule keeps its width,
\* height, blocksDoor, faces and preferredZones.
C16_RulesUnchanged == rules = InitialRules

\* C17 (as claimed): for each declared connection between two placed rooms,
\* door cells are carved if and only if the two rectangles touch along an
\* edge with an overlap of at least 2 cells; the door is then 2 cells wide,
\* centred on the overlap midpoint, inside the overlap range, and the
\* boundary cell on both rooms' sides is Door; no other cell is a Door.
connected(a, b) == Includes(placed[a].room.connections, placed[b].room.id)

touchesAbove(a, b) ==
    /\ bottom(a) = b.y
    /\ Min(right(a), right(b)) - Max(a.x, b.x) >= 2

touchesLeft(a, b) ==
    /\ right(a) = b.x
    /\ Min(bottom(a), bottom(b)) - Max(a.y, b.y) >= 2

\* the four cells of the opening between a (above) and b (below)
doorBelow(a, b) ==
    LET mid == (Max(a.x, b.x) + Min(right(a), right(b))) \div 2
    IN  {mid - 1, mid} \X {bottom(a) - 1, b.y}

\* the four cells of the opening between a (left) and b (right)
doorRight(a, b) ==
    LET mid == (Max(a.y, b.y) + Min(bottom(a), bottom(b))) \div 2
    IN  {right(a) - 1, b.x} \X {mid - 1, mid}

doorBetween(a, b) ==
    IF touchesAbove(a, b) THEN doorBelow(a, b)
    ELSE IF touchesAbove(b, a) THEN doorBelow(b, a)
    ELSE IF touchesLeft(a, b) THEN doorRight(a, b)
    ELSE IF touchesLeft(b, a) THEN doorRight(b, a)
    ELSE {}

expectedDoors ==
    UNION { doorBetween(placed[a], placed[b]) :
            << a, b >> \in { q \in (1..Len(placed)) \X (1..Len(placed)) : connected(q[1], q[2]) } }

canvasCells == (0..(config.width - 1)) \X (0..(config.height - 1))

doorCells == { c \in canvasCells : grid[c[2]][c[1]] = DOOR }

doorsCarved == pc \in {"tiles", "furnish", "done"}

C17_DoorsAsClaimed ==
    (generator = "structured" /\ ~malformed /\ doorsCarved) =>
        doorCells = expectedDoors

\* C18 (as claimed): across rasterising, wall skinning and door carving of one
\* generation every grid cell only moves forward in the order
\* Background -> Floor -> Wall/Door: no step takes a cell from Floor, Wall or
\* Door back to Background or from Wall or Door back to Floor, and no step
\* takes a Background cell to Door.
rank(v) == IF v = TERRAIN THEN 0 ELSE IF v = FLOOR THEN 1 ELSE 2

\* the grid is allocated filled with TERRAIN before the layout is built
cellAt(g, c) == IF c[2] \in DOMAIN g THEN g[c[2]][c[1]] ELSE TERRAIN

promotes(g, h) ==
    \A c \in canvasCells :
        /\ rank(cellAt(h, c)) >= rank(cellAt(g, c))
        /\ cellAt(g, c) = TERRAIN => cellAt(h, c) # DOOR

C18_OnlyPromotes == [][generator = "structured" => promotes(grid, grid')]_vars

\* C19 (as claimed): wall skinning turns into Wall exactly the cells that
\* the rasteriser did not paint and that have a painted neighbour; it leaves
\* every painted cell Floor; a cell with no Floor neighbour stays Background
\* and has no tile in the output.
painted(c) == roomGrid[c[2]][c[1]] # -1

neighbours(c) ==
    { n \in { << c[1] + Dirs[d][1], c[2] + Dirs[d][2] >> : d \in 1..4 } :
        n \in canvasCells }

skinned == pc = "doors"

tileCell(t) == << t.x, t.y >>

remote(c) == ~painted(c) /\ \A n \in neighbours(c) : ~painted(n)

tiled == pc \in {"furnish", "done"}

below(c) == << c[1], c[2] + 1 >>

rightOf(c) == << c[1] + 1, c[2] >>

otherRoom(c, n) == n \in canvasCells /\ painted(n) /\ roomGrid[n[2]][n[1]] # roomGrid[c[2]][c[1]]

wallByRule(c) ==
    /\ painted(c)
    /\ \/ \E n \in neighbours(c) : ~painted(n)
       \/ otherRoom(c, below(c))
       \/ otherRoom(c, rightOf(c))

grass(c) == Tile(c[1], c[2], "grass", "floor")

spineKids ==
    { i \in 1..Len(config.rooms) :
        /\ config.rooms[i].id # spineRect.room.id
        /\ Includes(spineRect.room.connections, config.rooms[i].id) }

horizontalSpine == spineRect.w >= spineRect.h

\* position and extent of a rectangle along the corridor
along(r) == IF horizontalSpine THEN r.x ELSE r.y

extent(r) == IF horizontalSpine THEN r.w ELSE r.h

\* position of a rectangle across the corridor, for the k-th child (k from 0)
across(r, k) ==
    IF horizontalSpine
    THEN r.y = (IF k % 2 = 0 THEN spineRect.y - r.h ELSE bottom(spineRect))
    ELSE r.x = (IF k % 2 = 0 THEN spineRect.x - r.w ELSE right(spineRect))

C20_SpinePacking ==
    (generator = "structured" /\ strategy = "spine" /\ pc \notin {"start", "layout"}) =>
        /\ Len(placed) >= 1 + Cardinality(spineKids)
        /\ { placed[i].room.id : i \in 2..(1 + Cardinality(spineKids)) }
             = { config.rooms[i].id : i \in spineKids }
        /\ \A i \in 2..(1 + Cardinality(spineKids)) :
              /\ i > 2 => Area(placed[i - 1]) >= Area(placed[i])
              /\ across(placed[i], i - 2)
              /\ along(placed[i]) = IF i <= 3 THEN along(spineRect)
                                    ELSE along(placed[i - 2]) + extent(placed[i - 2])

\* C21: the search of placeItems is exhaustive.  One iteration of the loop
\* over the sorted items leaves the tiles and the placed items as they were
\* when the item has no rule, or when no floor cell of the room's rectangle,
\* taken as the anchor in any rotation of 0, 90, 180, 270, satisfies the
\* bounds, collision, door-blocking and facing constraints; otherwise it adds
\* exactly one placed item and one furniture tile at its anchor, and that
\* placement satisfies the four constraints.
floorCells(r) ==
    { c \in roomCells(rooms[r]) \cap canvasCells : cellAt(grid, c) = floorValueOf(generator) }

allFloor(cells) ==
    \A c \in cells : c \in canvasCells /\ cellAt(grid, c) = floorValueOf(generator)

candidateItem(t, c, rot) ==
    [ type |-> t, x |-> c[1], y |-> c[2],
      width |-> IF rot \in {0, 180} THEN InitialRules[t].width ELSE InitialRules[t].height,
      height |-> IF rot \in {0, 180} THEN InitialRules[t].height ELSE InitialRules[t].width,
      rotation |-> rot ]

firstOfType(r, t) ==
    { k \in 1..Len(placedItems[r]) :
        /\ placedItems[r][k].type = t
        /\ \A u \in 1..(k - 1) : placedItems[r][u].type # t }

admissible(r, it) ==
    /\ allFloor(footprint(it))
    /\ \A k \in 1..Len(placedItems[r]) : footprint(placedItems[r][k]) \cap footprint(it) = {}
    /\ InitialRules[it.type].blocksDoor =>
          \A d \in 1..Len(doorsOf(rooms[r])) :
              << doorsOf(rooms[r])[d].x, doorsOf(rooms[r])[d].y >> \notin footprint(it)
    /\ \A k \in firstOfType(r, InitialRules[it.type].faces) :
          \/ facesTarget(it, placedItems[r][k])
          \/ /\ towardsX(it, placedItems[r][k]) = 0
             /\ towardsY(it, placedItems[r][k]) = 0

admissibleItems(r, t) ==
    { it \in { candidateItem(t, c, rot) : c \in floorCells(r), rot \in {0, 90, 180, 270} } :
        admissible(r, it) }

furnitureTileOf(it) ==
    [x |-> it.x, y |-> it.y, sprite |-> it.type, rotation |-> it.rotation, layer |-> "furniture"]

C21_Exhaustive ==
    [][(pc = "furnish" /\ fi' = fi + 1) =>
          LET t == sortedItemsOf(fr)[fi]
          IN  IF t \notin DOMAIN InitialRules \/ admissibleItems(fr, t) = {}
              THEN tiles' = tiles /\ placedItems' = placedItems
              ELSE \E it \in admissibleItems(fr, t) :
                      /\ tiles' = Append(tiles, furnitureTileOf(it))
                      /\ placedItems' = [placedItems EXCEPT ![fr] = Append(@, it)]]_vars

\* every kind of iteration has happened in one room: an item with no rule
\* (nothing emitted), and a table that only fits on a wall-adjacent anchor
C21_Witness ==
    /\ pc = "furnish"
    /\ fr <= Len(rooms)
    /\ fi > Len(sortedItemsOf(fr))
    /\ \E k \in 1..Len(sortedItemsOf(fr)) : sortedItemsOf(fr)[k] \notin DOMAIN InitialRules
    /\ \E k \in 1..Len(placedItems[fr]) :
          /\ placedItems[fr][k].type = "table"
          /\ zoneType(grid, placedItems[fr][k].x, placedItems[fr][k].y,
                      floorValueOf(generator)) = "wall"
    /\ Len(placedItems[fr]) < Cardinality({ k \in 1..Len(sortedItemsOf(fr)) :
                                              sortedItemsOf(fr)[k] \in DOMAIN InitialRules })

\* C22: for the room being furnished, calculateZones gives exactly one zone
\* to every Floor cell inside the room's bounds and none to any other cell;
\* the zone is 'wall' iff one of the cell's four orthogonal neighbours is
\* outside the grid or is not Floor, and 'center' otherwise.
fourNeighbours(c) ==
    { << c[1], c[2] - 1 >>, << c[1] + 1, c[2] >>, << c[1], c[2] + 1 >>, << c[1] - 1, c[2] >> }

isFloorCell(c) == c \in canvasCells /\ cellAt(grid, c) = floorValueOf(generator)

zonesOf(r) == calculateZones(rooms[r], grid, floorValueOf(generator))

C22_Zones ==
    (pc = "furnish" /\ fr <= Len(rooms)) =>
        /\ { << z.x, z.y >> : z \in zonesOf(fr) } = floorCells(fr)
        /\ Cardinality(zonesOf(fr)) = Cardinality(floorCells(fr))
        /\ \A z \in zonesOf(fr) :
              /\ z.type \in {"wall", "center"}
              /\ z.type = "wall" <=> \E n \in fourNeighbours(<< z.x, z.y >>) : ~isFloorCell(n)

\* a room with an interior cell, and with a floor cell on the border of the
\* grid whose only missing neighbour is the one outside the grid
C22_Witness ==
    /\ pc = "furnish"
    /\ fr <= Len(rooms)
    /\ \E z \in zonesOf(fr) : z.type = "center"
    /\ \E z \in zonesOf(fr) :
          /\ z.type = "wall"
          /\ \A n \in fourNeighbours(<< z.x, z.y >>) \cap canvasCells : isFloorCell(n)

\* C26 (as claimed): every door cell recorded in a room's doors list lies
\* inside that room's own rectangle.
C26_DoorsInsideOwnRoom ==
    (generator = "structured" /\ ~malformed /\ doorsCarved) =>
        \A r \in 1..Len(rooms) :
            \A d \in 1..Len(doorsOf(rooms[r])) :
                << doorsOf(rooms[r])[d].x, doorsOf(rooms[r])[d].y >> \in roomCells(rooms[r])

\* C27 (as claimed): every room floor tile (the floor tile under a Floor or
\* Door cell) carries the floor sprite of the type of the room whose
\* rectangle contains the cell.
roomFloorTile(t) == t.layer = "floor" /\ t.sprite # "grass"

C27_SpriteOfOwnRoom ==
    (generator = "structured" /\ ~malformed /\ tiled) =>
        \A k \in 1..Len(tiles) :
            roomFloorTile(tiles[k]) =>
                \A i \in 1..Len(placed) :
                    tileCell(tiles[k]) \in rectCells(placed[i]) =>
                        tiles[k].sprite = getFloorSprite(placed[i].room.type)

\* C28: once the walls are skinned, no two orthogonally adjacent cells
\* painted for different rooms are both Floor, and door carving keeps it so.
wallsSkinned == pc \in {"doors", "tiles", "furnish", "done"}

C28_RoomsSeparated ==
    (generator = "structured" /\ wallsSkinned) =>
        \A c \in canvasCells :
            (painted(c) /\ cellAt(grid, c) = FLOOR) =>
                \A n \in neighbours(c) :
                    otherRoom(c, n) => cellAt(grid, n) # FLOOR

\* two rooms side by side: a Floor cell of one next to a Wall cell of the
\* other, which itself has no Background neighbour
C28_Witness ==
    /\ generator = "structured"
    /\ pc = "doors"
    /\ \E c \in canvasCells :
          /\ painted(c)
          /\ cellAt(grid, c) = FLOOR
          /\ \E n \in neighbours(c) :
                /\ otherRoom(c, n)
                /\ cellAt(grid, n) = WALL
                /\ \A m \in neighbours(n) : painted(m)

\* C30: an item whose rule names no facing target is emitted with rotation
\* 0 or 90, never 180 or 270, in the placed items and in its furniture tile.
facesNothing(t) == t \in DOMAIN InitialRules /\ InitialRules[t].faces = ""

C30_LowRotations ==
    /\ \A r \in 1..Len(placedItems) :
          \A k \in 1..Len(placedItems[r]) :
              facesNothing(placedItems[r][k].type) => placedItems[r][k].rotation \in {0, 90}
    /\ \A k \in 1..Len(tiles) :
          (tiles[k].layer = "furniture" /\ facesNothing(tiles[k].sprite)) =>
              tiles[k].rotation \in {0, 90}

\* a sofa stored upright (rotation 90) because it did not fit lying down at
\* its anchor, and a tv (which has a target) stored with rotation 180 or 270
C30_Witness ==
    \E r \in 1..Len(placedItems) :
        /\ \E k \in 1..Len(placedItems[r]) :
              /\ placedItems[r][k].type = "sofa"
              /\ placedItems[r][k].rotation = 90
        /\ \E k \in 1..Len(placedItems[r]) :
              /\ placedItems[r][k].type = "tv"
              /\ placedItems[r][k].rotation \in {180, 270}

-----------------------------------------------------------------------------
(* The BSP lot-subdivision variant of StructuredGenerator *)

MaxLot == 21
MaxLeaves == 4
IterationCap == 1000

minRoomSize == 6
mapPadding == 2

\* the center and room fields of a Container play no part in the split loop
Container(x, y, w, h) == [x |-> x, y |-> y, width |-> w, height |-> h]

containerArea(c) == c.width * c.height

\* leaves.sort((a, b) => area(b) - area(a)): stable, descending
RECURSIVE insertLeaf(_, _)
insertLeaf(sorted, e) ==
    IF sorted = << >> THEN << e >>
    ELSE IF containerArea(Head(sorted)) >= containerArea(e)
         THEN << Head(sorted) >> \o insertLeaf(Tail(sorted), e)
         ELSE << e >> \o sorted

RECURSIVE sortLeaves(_)
sortLeaves(s) ==
    IF s = << >> THEN << >>
    ELSE insertLeaf(sortLeaves(SubSeq(s, 1, Len(s) - 1)), s[Len(s)])

canSplit(c) == c.width >= minRoomSize * 2 \/ c.height >= minRoomSize * 2

\* the axes splitContainer may cut along: TRUE is a horizontal cut (top /
\* bottom); Math.random() > 0.5 unless the aspect ratio decides
splitHChoices(c) ==
    IF c.width > c.height /\ 4 * c.width >= 5 * c.height THEN {FALSE}
    ELSE IF c.height > c.width /\ 4 * c.height >= 5 * c.width THEN {TRUE}
    ELSE {TRUE, FALSE}

\* a split point drawn from the whole length of the container
splitAtChoicesWholeLength(len) == 1..(len - 1)

\* Math.floor(Math.random() * (max - minRoomSize + 1)) + minRoomSize
splitAtChoices(len) == minRoomSize..(len - minRoomSize)

NoSplit == << >>

\* every value splitContainer(c) can return: NoSplit for null
splitContainer(c) ==
    IF ~canSplit(c) THEN {NoSplit}
    ELSE UNION {
           IF (IF splitH THEN c.height ELSE c.width) - minRoomSize < minRoomSize
           THEN {NoSplit}
           ELSE { IF splitH
                  THEN << Container(c.x, c.y, c.width, splitAt),
                          Container(c.x, c.y + splitAt, c.width, c.height - splitAt) >>
                  ELSE << Container(c.x, c.y, splitAt, c.height),
                          Container(c.x + splitAt, c.y, c.width - splitAt, c.height) >>
                  : splitAt \in splitAtChoices(IF splitH THEN c.height ELSE c.width) }
           : splitH \in splitHChoices(c) }

BspSizes == (2 * mapPadding + 2 * minRoomSize)..MaxLot

BspConfigs ==
    { [ type   |-> "structured",
        width  |-> w,
        height |-> h,
        rooms  |-> [i \in 1..n |-> RoomConfig(i, n, Plain, "star", "plain")] ] :
      << w, h, n >> \in BspSizes \X BspSizes \X (0..MaxLeaves) }

InitBSP ==
    /\ config \in BspConfigs
    /\ pc = "lot"
    /\ strategy = "none"
    /\ allRects = << >>
    /\ placed = << >>
    /\ qi = 0
    /\ stuck = 0
    /\ grid = NoGrid
    /\ roomGrid = NoGrid
    /\ rooms = << >>
    /\ tiles = << >>
    /\ fr = 0
    /\ fi = 0
    /\ placedItems = << >>
    /\ rules = InitialRules
    /\ prevOut = NoOutput
    /\ leaves = << >>
    /\ iterations = 0
    /\ queue = << >>
    /\ ni = 0
    /\ unplacedList = << >>

pipelineVars == << strategy, allRects, placed, qi, stuck, grid, roomGrid,
                   rooms, tiles, fr, fi, placedItems, rules, prevOut >>

targetRoomCount == Len(config.rooms)

\* the root container, the lot
BspRoot ==
    /\ pc = "lot"
    /\ leaves' = << Container(mapPadding, mapPadding,
                              config.width - mapPadding * 2,
                              config.height - mapPadding * 2) >>
    /\ iterations' = 0
    /\ pc' = "split"
    /\ UNCHANGED << config, queue, ni, unplacedList >>
    /\ UNCHANGED pipelineVars

\* one iteration of the split loop
BspIterate ==
    /\ pc = "split"
    /\ Len(leaves) < targetRoomCount
    /\ iterations < IterationCap
    /\ iterations' = iterations + 1
    /\ \E sorted \in { sortLeaves(leaves) } :
       \E split \in splitContainer(Head(sorted)) :
          IF split # NoSplit
          THEN /\ leaves' = Tail(sorted) \o split
               /\ pc' = "split"
          ELSE /\ leaves' = Tail(sorted) \o << Head(sorted) >>
               /\ pc' = IF \A i \in 1..Len(leaves) : ~canSplit(leaves[i])
                        THEN "assign" ELSE "split"
    /\ UNCHANGED << config, queue, ni, unplacedList >>
    /\ UNCHANGED pipelineVars

\* the loop condition fails
BspLoopEnd ==
    /\ pc = "split"
    /\ ~(Len(leaves) < targetRoomCount /\ iterations < IterationCap)
    /\ pc' = "assign"
    /\ UNCHANGED << config, leaves, iterations, queue, ni, unplacedList >>
    /\ UNCHANGED pipelineVars

NextBSP ==
    \/ BspRoot
    \/ BspIterate
    \/ BspLoopEnd

SpecBSP == InitBSP /\ [][NextBSP]_vars

\* C23: the BSP subdivision loop ends only when the number of leaves has
\* reached the number of rooms or when no leaf can be split any further: it
\* never stops with fewer leaves than rooms while some leaf satisfies canSplit
C23_LoopEndsWhenDone ==
    pc = "assign" =>
        \/ Len(leaves) >= targetRoomCount
        \/ \A i \in 1..Len(leaves) : ~canSplit(leaves[i])

containerCells(c) == cellsOf(c.x, c.y, c.width, c.height)

occurrences(s, e) == Cardinality({ i \in 1..Len(s) : s[i] = e })

sameContainers(s, t) ==
    /\ Len(s) = Len(t)
    /\ \A i \in 1..Len(s) : occurrences(s, s[i]) = occurrences(t, s[i])

without(s, i) == SubSeq(s, 1, i - 1) \o SubSeq(s, i + 1, Len(s))

tilesExactly(c, c1, c2) ==
    /\ containerCells(c1) \cup containerCells(c2) = containerCells(c)
    /\ containerCells(c1) \cap containerCells(c2) = {}

leftRight(c, c1, c2) ==
    /\ c1.height = c.height /\ c2.height = c.height
    /\ c1.y = c.y /\ c2.y = c.y
    /\ c1.width >= minRoomSize /\ c2.width >= minRoomSize

topBottom(c, c1, c2) ==
    /\ c1.width = c.width /\ c2.width = c.width
    /\ c1.x = c.x /\ c2.x = c.x
    /\ c1.height >= minRoomSize /\ c2.height >= minRoomSize

wide(c) == c.width > c.height /\ 4 * c.width >= 5 * c.height
tall(c) == c.height > c.width /\ 4 * c.height >= 5 * c.width

asClaimedSplit(c, c1, c2) ==
    /\ tilesExactly(c, c1, c2)
    /\ leftRight(c, c1, c2) \/ topBottom(c, c1, c2)
    /\ wide(c) => leftRight(c, c1, c2)
    /\ tall(c) => topBottom(c, c1, c2)

\* C24: splitContainer returns either null (the leaves stay as they were) or
\* two children that exactly tile the parent container (no overlap, no gap,
\* same extent on the unsplit axis), each at least minRoomSize long on the
\* split axis; a container wider than tall by a ratio of at least 1.25 is
\* split into left / right halves, one taller than wide by that ratio into
\* top / bottom halves
C24_SplitTilesParent ==
    [][ (pc = "split" /\ iterations' = iterations + 1) =>
          \/ sameContainers(leaves, leaves')
          \/ /\ Len(leaves') = Len(leaves) + 1
             /\ \E i \in 1..Len(leaves) :
                   /\ sameContainers(without(leaves, i),
                                     SubSeq(leaves', 1, Len(leaves') - 2))
                   /\ asClaimedSplit(leaves[i], leaves'[Len(leaves') - 1],
                                     leaves'[Len(leaves')]) ]_vars

\* the lot was split top / bottom and then its wide half left / right
C24_Witness ==
    /\ pc = "split"
    /\ Len(leaves) = 3
    /\ \E a, b, c \in { leaves[i] : i \in 1..3 } :
          /\ c.x = b.x + b.width
          /\ c.y = b.y
          /\ c.height = b.height
          /\ 4 * (b.width + c.width) >= 5 * b.height
          /\ a.x = b.x
          /\ a.width = b.width + c.width
          /\ a.y + a.height = b.y \/ b.y + b.height = a.y

-----------------------------------------------------------------------------
(* The graph-growth variant of StructuredGenerator *)

\* getRoomDimensions(type, name) of the graph-growth variant
growthRoomDimensions(room) ==
    IF Test({"hall", "corridor"}, room.type) THEN [w |-> 14, h |-> 6]
    ELSE IF Test({"living", "lounge", "common"}, room.type) THEN [w |-> 12, h |-> 12]
    ELSE IF Test({"kitchen", "dining"}, room.type) THEN [w |-> 10, h |-> 10]
    ELSE IF Test({"master"}, room.type) \/ Test({"master"}, room.name)
         THEN [w |-> 10, h |-> 10]
    ELSE IF Test({"bed"}, room.type) THEN [w |-> 8, h |-> 8]
    ELSE IF Test({"bath", "wc", "toilet"}, room.type) THEN [w |-> 6, h |-> 6]
    ELSE IF Test({"garage", "carport"}, room.type) THEN [w |-> 10, h |-> 14]
    ELSE [w |-> 8, h |-> 8]

\* Rect.overlaps: the rectangles shrunk by the shared wall
overlaps(this, other) ==
    /\ this.x + 1 < other.x + other.w - 1
    /\ this.x + this.w - 1 > other.x + 1
    /\ this.y + 1 < other.y + other.h - 1
    /\ this.y + this.h - 1 > other.y + 1

\* the directions trySnapRoom goes through, in any order
SnapDirections == {"top", "bottom", "left", "right"}

\* a collision loop that skips every room
collisionSkippingAll(child, parent, allRooms) == FALSE

\* the child moved to the given side of the parent
snapTo(parent, child, dir) ==
    IF dir = "top"
    THEN MoveTo(child, [x |-> parent.x + ((parent.w - child.w) \div 2),
                        y |-> parent.y - child.h + 1])
    ELSE IF dir = "bottom"
    THEN MoveTo(child, [x |-> parent.x + ((parent.w - child.w) \div 2),
                        y |-> parent.y + parent.h - 1])
    ELSE IF dir = "left"
    THEN MoveTo(child, [x |-> parent.x - child.w + 1,
                        y |-> parent.y + ((parent.h - child.h) \div 2)])
    ELSE MoveTo(child, [x |-> parent.x + parent.w - 1,
                        y |-> parent.y + ((parent.h - child.h) \div 2)])

outOfBounds(child, mapW, mapH) ==
    \/ child.x < 1
    \/ child.y < 1
    \/ right(child) > mapW - 1
    \/ bottom(child) > mapH - 1

collision(child, parent, allRooms) ==
    \E i \in 1..Len(allRooms) :
        /\ allRooms[i].room.id # parent.room.id
        /\ overlaps(child, allRooms[i])

\* the positions trySnapRoom can leave the child in when it returns true; it
\* returns false when there is none
trySnapRoom(parent, child, allRooms, mapW, mapH) ==
    { c \in { snapTo(parent, child, dir) : dir \in SnapDirections } :
        /\ ~outOfBounds(c, mapW, mapH)
        /\ ~collision(c, parent, allRooms) }

GrowthSizes == CanvasW..MaxLot

GrowthConfigs ==
    { [ type   |-> "structured",
        width  |-> w,
        height |-> h,
        rooms  |-> [i \in 1..n |-> RoomConfig(i, n, kinds[i], topo, "plain")] ] :
      << w, h, n, kinds, topo >> \in
        UNION { GrowthSizes \X GrowthSizes \X {n} \X [1..n -> Kinds] \X Topologies :
                n \in 0..MaxRooms } }

InitGrowth ==
    /\ config \in GrowthConfigs
    /\ pc = "rects"
    /\ strategy = "none"
    /\ allRects = << >>
    /\ placed = << >>
    /\ qi = 0
    /\ stuck = 0
    /\ grid = NoGrid
    /\ roomGrid = NoGrid
    /\ rooms = << >>
    /\ tiles = << >>
    /\ fr = 0
    /\ fi = 0
    /\ placedItems = << >>
    /\ rules = InitialRules
    /\ prevOut = NoOutput
    /\ leaves = << >>
    /\ iterations = 0
    /\ queue = << >>
    /\ ni = 0
    /\ unplacedList = << >>

roomRects ==
    [i \in 1..Len(config.rooms) |->
        Rect(0, 0, growthRoomDimensions(config.rooms[i]).w,
                   growthRoomDimensions(config.rooms[i]).h, config.rooms[i])]

\* index of the start node in roomRects
startIndex ==
    IF \E i \in 1..Len(roomRects) :
          Test({"entrance"}, roomRects[i].room.type)
          \/ Test({"foyer"}, roomRects[i].room.name)
    THEN CHOOSE i \in 1..Len(roomRects) :
           /\ Test({"entrance"}, roomRects[i].room.type)
              \/ Test({"foyer"}, roomRects[i].room.name)
           /\ \A j \in 1..(i - 1) :
                 ~(Test({"entrance"}, roomRects[j].room.type)
                   \/ Test({"foyer"}, roomRects[j].room.name))
    ELSE IF \E i \in 1..Len(roomRects) :
               Test({"living", "common"}, roomRects[i].room.type)
    THEN CHOOSE i \in 1..Len(roomRects) :
           /\ Test({"living", "common"}, roomRects[i].room.type)
           /\ \A j \in 1..(i - 1) :
                 ~Test({"living", "common"}, roomRects[j].room.type)
    ELSE 1

\* the start node in the centre of the canvas; no room type of the inputs is
\* 'entrance'.  Without rooms roomRects[0] is undefined and startNode.w throws
GrowthStart ==
    /\ pc = "rects"
    /\ allRects' = roomRects
    /\ IF Len(config.rooms) = 0
       THEN /\ pc' = "thrown"
            /\ UNCHANGED << placed, queue, ni >>
       ELSE \E startNode \in
                 { MoveTo(roomRects[startIndex],
                          [x |-> (config.width - roomRects[startIndex].w) \div 2,
                           y |-> (config.height - roomRects[startIndex].h) \div 2]) } :
               /\ placed' = << startNode >>
               /\ queue' = << startNode >>
               /\ ni' = 1
               /\ pc' = "grow"
    /\ UNCHANGED << config, strategy, qi, stuck, grid, roomGrid, rooms, tiles,
                    fr, fi, placedItems, rules, prevOut, leaves, iterations,
                    unplacedList >>

\* the rect of roomRects with the given id, as a set (empty if there is none)
rectById(id) == { allRects[i] : i \in { j \in 1..Len(allRects) : allRects[j].room.id = id } }

\* one pass of the loop over the neighbour ids of the parent, the head of
\* the queue
GrowthVisit ==
    /\ pc = "grow"
    /\ queue # << >>
    /\ ni <= Len(Head(queue).room.connections)
    /\ \E parent \in { Head(queue) } :
       \E nbId \in { parent.room.connections[ni] } :
          IF nbId \in placedIds(placed) \/ rectById(nbId) = {}
          THEN UNCHANGED << placed, queue >>
          ELSE \E child \in rectById(nbId) :
               \E fitting \in { trySnapRoom(parent, child, placed,
                                            config.width, config.height) } :
                  IF fitting = {}
                  THEN UNCHANGED << placed, queue >>
                  ELSE \E c \in fitting :
                          /\ placed' = Append(placed, c)
                          /\ queue' = Append(queue, c)
    /\ ni' = ni + 1
    /\ UNCHANGED << config, pc, strategy, allRects, qi, stuck, grid, roomGrid,
                    rooms, tiles, fr, fi, placedItems, rules, prevOut, leaves,
                    iterations, unplacedList >>

\* the neighbour ids of the parent are exhausted: the next queue entry
GrowthShift ==
    /\ pc = "grow"
    /\ queue # << >>
    /\ ni > Len(Head(queue).room.connections)
    /\ queue' = Tail(queue)
    /\ ni' = 1
    /\ UNCHANGED << config, pc, strategy, allRects, placed, qi, stuck, grid,
                    roomGrid, rooms, tiles, fr, fi, placedItems, rules,
                    prevOut, leaves, iterations, unplacedList >>

\* the queue is empty: the rooms not placed so far
GrowthUnplaced ==
    /\ pc = "grow"
    /\ queue = << >>
    /\ unplacedList' = unplacedRects(allRects, placed)
    /\ ni' = 1
    /\ pc' = "unplaced"
    /\ UNCHANGED << config, strategy, allRects, placed, qi, stuck, grid,
                    roomGrid, rooms, tiles, fr, fi, placedItems, rules,
                    prevOut, leaves, iterations, queue >>

\* one unplaced room is tried against every placed room, in order
GrowthLeftover ==
    /\ pc = "unplaced"
    /\ ni <= Len(unplacedList)
    /\ \E child \in { unplacedList[ni] } :
       \E accepting \in { { p \in 1..Len(placed) :
                              trySnapRoom(placed[p], child, placed,
                                          config.width, config.height) # {} } } :
          IF accepting = {}
          THEN UNCHANGED placed
          ELSE \E p \in { q \in accepting : \A o \in accepting : q <= o } :
               \E c \in trySnapRoom(placed[p], child, placed,
                                    config.width, config.height) :
                  placed' = Append(placed, c)
    /\ ni' = ni + 1
    /\ UNCHANGED << config, pc, strategy, allRects, qi, stuck, grid, roomGrid,
                    rooms, tiles, fr, fi, placedItems, rules, prevOut, leaves,
                    iterations, queue, unplacedList >>

\* every unplaced room was tried: the layout is handed to the rasteriser
GrowthDone ==
    /\ pc = "unplaced"
    /\ ni > Len(unplacedList)
    /\ pc' = "grown"
    /\ UNCHANGED << config, strategy, allRects, placed, qi, stuck, grid,
                    roomGrid, rooms, tiles, fr, fi, placedItems, rules,
                    prevOut, leaves, iterations, queue, ni, unplacedList >>

NextGrowth ==
    \/ GrowthStart
    \/ GrowthVisit
    \/ GrowthShift
    \/ GrowthUnplaced
    \/ GrowthLeftover
    \/ GrowthDone

SpecGrowth == InitGrowth /\ [][NextGrowth]_vars

innerCells(r) == cellsOf(r.x + 1, r.y + 1, r.w - 2, r.h - 2)

\* the two rectangles have exactly one row or exactly one column in common
sharesWall(c, parent) ==
    LET common == cellsOf(c.x, c.y, c.w, c.h)
                  \cap cellsOf(parent.x, parent.y, parent.w, parent.h)
    IN  /\ common # {}
        /\ \/ Cardinality({ cell[2] : cell \in common }) = 1
           \/ Cardinality({ cell[1] : cell \in common }) = 1

withinMap(c) ==
    /\ c.x >= 1
    /\ c.y >= 1
    /\ right(c) <= config.width - 1
    /\ bottom(c) <= config.height - 1

clearOfOthers(c, others) ==
    \A i \in 1..Len(others) :
        others[i].room.id # c.room.id =>
            innerCells(c) \cap innerCells(others[i]) = {}

snappedAsClaimed(c, parent, others) ==
    /\ sharesWall(c, parent)
    /\ withinMap(c)
    /\ clearOfOthers(c, others)

allSidesFail(parent, child, others) ==
    \A dir \in SnapDirections :
        ~snappedAsClaimed(snapTo(parent, child, dir), parent, others)

\* the neighbour the growth loop is about to hand to trySnapRoom, if any
triedChildren ==
    IF pc = "grow" /\ queue # << >> /\ ni <= Len(Head(queue).room.connections)
    THEN { r \in Range(allRects) :
             /\ r.room.id = Head(queue).room.connections[ni]
             /\ r.room.id \notin placedIds(placed) }
    ELSE {}

\* C25: in the graph-growth variant, when trySnapRoom returns true the child
\* overlaps its parent by exactly one row or one column, satisfies x >= 1,
\* y >= 1, right <= mapW - 1 and bottom <= mapH - 1, and its inner area
\* intersects the inner area of no other placed room; it returns false
\* exactly when all four sides fail one of these checks
C25_SnapAsClaimed ==
    [][ /\ \A child \in triedChildren :
             IF placed' # placed
             THEN /\ placed' = Append(placed, placed'[Len(placed')])
                  /\ placed'[Len(placed')].room = child.room
                  /\ snappedAsClaimed(placed'[Len(placed')], Head(queue), placed)
                  /\ ~allSidesFail(Head(queue), child, placed)
             ELSE allSidesFail(Head(queue), child, placed)
        /\ (pc = "unplaced" /\ ni' = ni + 1) =>
             IF placed' # placed
             THEN /\ placed' = Append(placed, placed'[Len(placed')])
                  /\ placed'[Len(placed')].room = unplacedList[ni].room
                  /\ \E p \in 1..Len(placed) :
                        /\ snappedAsClaimed(placed'[Len(placed')], placed[p], placed)
                        /\ \A q \in 1..(p - 1) :
                              allSidesFail(placed[q], unplacedList[ni], placed)
             ELSE \A p \in 1..Len(placed) :
                     allSidesFail(placed[p], unplacedList[ni], placed) ]_vars

\* one room was snapped to its parent and another one fitted nowhere
C25_Witness ==
    /\ pc = "grown"
    /\ Len(placed) >= 2
    /\ Len(placed) < Len(allRects)

-----------------------------------------------------------------------------
(* ServerlessGeminiDirector.generateMapConfig: sanitisation of the parsed   *)
(* config                                                                  *)

\* the connections of a room the parsed JSON gives no connections field
Absent == << "(absent)" >>

\* an id that no room of the parsed config has
GhostId == "r0"

\* the id a parsed room may name: that of room i, or one no room has
NamedId(i) == IF i = 0 THEN GhostId ELSE IdOf(i)

\* the connections a room of a parsed config of n rooms may carry: none, one
\* or two ids (the order of two ids changes the order of the BFS only)
ConnectionLists(n) ==
    {Absent, << >>}
        \cup { << NamedId(i) >> : i \in 0..n }
        \cup { << NamedId(i), NamedId(j) >> :
                 << i, j >> \in { p \in (0..n) \X (0..n) : p[1] <= p[2] } }

ParsedRoom(i, connections) ==
    [ id          |-> IdOf(i),
      name        |-> Plain.name,
      type        |-> Plain.type,
      connections |-> connections,
      furniture   |-> << >>,
      width       |-> 0,
      height      |-> 0 ]

ParsedConfigs ==
    { [ type   |-> "structured",
        width  |-> CanvasW,
        height |-> CanvasH,
        rooms  |-> [i \in 1..n |-> ParsedRoom(i, links[i])] ] :
      << n, links >> \in
        UNION { {n} \X [1..n -> ConnectionLists(n)] :
                n \in 0..MaxRooms } }

InitDirector ==
    /\ config \in ParsedConfigs
    /\ pc = "parsed"
    /\ strategy = "none"
    /\ allRects = << >>
    /\ placed = << >>
    /\ qi = 0
    /\ stuck = 0
    /\ grid = NoGrid
    /\ roomGrid = NoGrid
    /\ rooms = << >>
    /\ tiles = << >>
    /\ fr = 0
    /\ fi = 0
    /\ placedItems = << >>
    /\ rules = InitialRules
    /\ prevOut = NoOutput
    /\ leaves = << >>
    /\ iterations = 0
    /\ queue = << >>
    /\ ni = 0
    /\ unplacedList = << >>

\* step 1: connections to ids that no room has are removed
validateConnections(rs) ==
    LET roomIds == { rs[i].id : i \in 1..Len(rs) }
        known(targetId) == targetId \in roomIds
    IN  [i \in 1..Len(rs) |->
            [rs[i] EXCEPT !.connections =
                IF rs[i].connections = Absent THEN << >>
                ELSE SelectSeq(rs[i].connections, known)]]

\* config.rooms.find(r => r.id === id)?.connections
connectionsById(rs, id) ==
    IF \E i \in 1..Len(rs) : rs[i].id = id
    THEN rs[CHOOSE i \in 1..Len(rs) :
              rs[i].id = id /\ \A j \in 1..(i - 1) : rs[j].id # id].connections
    ELSE << >>

\* the BFS from the hub: the ids visited when the queue has run empty
RECURSIVE visitedFrom(_, _, _)
visitedFrom(rs, q, visited) ==
    IF q = << >> THEN visited
    ELSE IF Head(q) \in visited THEN visitedFrom(rs, Tail(q), visited)
    ELSE visitedFrom(rs, Tail(q) \o connectionsById(rs, Head(q)),
                     visited \cup {Head(q)})

\* the orphans are linked to the hub, the hub is not linked to them
connectOrphansOneWay(rs, visited) ==
    [i \in 1..Len(rs) |->
        IF rs[i].id \notin visited
        THEN [rs[i] EXCEPT !.connections = Append(@, rs[1].id)]
        ELSE rs[i]]

\* step 2: every room the BFS did not visit is linked to the hub and the hub
\* to it, in the order of config.rooms
connectOrphans(rs, visited) ==
    LET hubId == rs[1].id
        isOrphan(r) == r.id \notin visited
        orphans == SelectSeq(rs, isOrphan)
        hubIndex == CHOOSE i \in 1..Len(rs) :
                       rs[i].id = hubId /\ \A j \in 1..(i - 1) : rs[j].id # hubId
    IN  [i \in 1..Len(rs) |->
            [rs[i] EXCEPT !.connections =
                (IF isOrphan(rs[i]) THEN Append(@, hubId) ELSE @) \o
                (IF i = hubIndex
                 THEN [k \in 1..Len(orphans) |-> orphans[k].id]
                 ELSE << >>)]]

sanitize(rs) ==
    Let(validateConnections(rs),
        LAMBDA valid :
            IF Len(valid) > 1
            THEN connectOrphans(valid,
                                visitedFrom(valid, << valid[1].id >>, {}))
            ELSE valid)

\* the sanitisation and graph repair of the parsed config, in place
Sanitize ==
    /\ pc = "parsed"
    /\ config' = [config EXCEPT !.rooms = sanitize(config.rooms)]
    /\ pc' = "sanitized"
    /\ UNCHANGED variantVars
    /\ UNCHANGED pipelineVars

NextDirector == Sanitize

SpecDirector == InitDirector /\ [][NextDirector]_vars

\* the ids a room names in its connections
namedBy(room) ==
    IF room.connections = Absent THEN {} ELSE Range(room.connections)

RECURSIVE reachableIds(_, _)
reachableIds(rs, found) ==
    LET more == found \cup UNION { namedBy(rs[i]) : i \in { j \in 1..Len(rs) : rs[j].id \in found } }
    IN  IF more = found THEN found ELSE reachableIds(rs, more)

\* C29: after the sanitisation step of generateMapConfig on a parsed config
\* with at least one room, every id in every room's connections is the id of
\* an existing room, and every room is reachable from the first room by
\* following connections; rooms not reachable beforehand are linked to the
\* first room in both directions
C29_Sanitised ==
    [][ (pc = "parsed" /\ pc' = "sanitized" /\ Len(config.rooms) >= 1) =>
          \E before \in { config.rooms } :
          \E after \in { config'.rooms } :
          \E reachedBefore \in { reachableIds(before, {before[1].id}) } :
          \E reachedAfter \in { reachableIds(after, {after[1].id}) } :
          \E idsAfter \in { { after[j].id : j \in 1..Len(after) } } :
              /\ Len(after) = Len(before)
              /\ \A i \in 1..Len(after) :
                    /\ after[i].id = before[i].id
                    /\ after[i].connections # Absent
                    /\ Range(after[i].connections) \subseteq idsAfter
                    /\ after[i].id \in reachedAfter
                    /\ before[i].id \notin reachedBefore =>
                          /\ after[1].id \in Range(after[i].connections)
                          /\ after[i].id \in Range(after[1].connections) ]_vars

\* a room that named the first room twice without being named by it was an
\* orphan and got its link to the first room, and the first room one to it
C29_Witness ==
    /\ pc = "sanitized"
    /\ Len(config.rooms) >= 3
    /\ \E i \in 2..Len(config.rooms) :
          /\ config.rooms[i].connections =
                << config.rooms[1].id, config.rooms[1].id, config.rooms[1].id >>
          /\ config.rooms[i].id \in Range(config.rooms[1].connections)

====
